---------------------------- MODULE Spec2Model ----------------------------
(***************************************************************************)
(* Model of the signal-processing routines of cdl/algorithms/signal.py.    *)
(*                                                                         *)
(* Arrays are functions over 0..n-1 (NumPy indexing); lists of indices are *)
(* sequences.  Sample values are integers (exactly representable in        *)
(* float64); quotients are exact fractions <<num, den>>.  Each routine is  *)
(* a small state machine: `fn` names the routine called, `args` holds its  *)
(* scalar parameters, `pc` is the statement about to run, and the other    *)
(* variables are the routine's locals.                                     *)
(***************************************************************************)
EXTENDS Integers, Sequences, FiniteSets, TLC

VARIABLES fn, args, pc, x, y, err, warned, result,
          thres, dy, peaks, highest, rem, k,
          steps, half_max, leveled_y, xi_before, x0, x1, y1,
          y_mag, f_welch, pxx, xnew, ynew, interpolator_extrap,
          data, mu, hmax, fx_found, heap, env, prog,
          fitparams, ampfft, powfund, sumharm, i_harm

vars == <<fn, args, pc, x, y, err, warned, result,
          thres, dy, peaks, highest, rem, k,
          steps, half_max, leveled_y, xi_before, x0, x1, y1,
          y_mag, f_welch, pxx, xnew, ynew, interpolator_extrap,
          data, mu, hmax, fx_found, heap, env, prog,
          fitparams, ampfft, powfund, sumharm, i_harm>>

io == <<fn, args, x, y>>
peakLocals == <<thres, dy, peaks, highest, rem, k>>
findLocals == <<half_max, leveled_y, xi_before, x0>>
fftLocals == <<x1, y1>>
spectrumLocals == <<y_mag, f_welch, pxx>>
dispatchLocals == <<xnew, ynew, interpolator_extrap>>
fwhmLocals == <<data, mu, hmax, fx_found>>
heapVars == <<heap, env, prog>>
ratioLocals == <<fitparams, ampfft, powfund, sumharm, i_harm>>
nonPeak == <<steps, findLocals, fftLocals,
             spectrumLocals, dispatchLocals, fwhmLocals, heapVars, ratioLocals>>
nonSampling == <<peakLocals, findLocals, fftLocals,
                 spectrumLocals, dispatchLocals, fwhmLocals, heapVars, ratioLocals>>
nonFind == <<peakLocals, steps, fftLocals,
             spectrumLocals, dispatchLocals, fwhmLocals, heapVars, ratioLocals>>
nonFft == <<peakLocals, steps, findLocals,
            spectrumLocals, dispatchLocals, fwhmLocals, heapVars, ratioLocals>>

\* the locals of the routines that are not running
SpectrumIdle == y_mag = <<>> /\ f_welch = <<>> /\ pxx = <<>>

DispatchIdle == xnew = <<>> /\ ynew = <<>> /\ interpolator_extrap = "None"

FwhmIdle == data = <<>> /\ mu = <<>> /\ hmax = <<>> /\ fx_found = <<>>

HeapIdle == heap = <<>> /\ env = <<>> /\ prog = <<>>

RatioIdle ==
    /\ fitparams = <<>> /\ ampfft = <<>> /\ powfund = <<>>
    /\ sumharm = 0 /\ i_harm = 0

PeakIdle ==
    thres = 0 /\ dy = <<>> /\ peaks = <<>> /\ highest = <<>> /\ rem = <<>> /\ k = 0

FindIdle == half_max = 0 /\ leveled_y = <<>> /\ xi_before = <<>> /\ x0 = <<>>

FftIdle == x1 = <<>> /\ y1 = <<>>

SamplingIdle == steps = <<>>

(***************************************************************************)
(* Bounds of the model.                                                    *)
(***************************************************************************)
MaxLen == 6
MaxDist == 3

\* sample values used for the exhaustive inputs
Amplitudes == {-1, 0, 1, 2}

\* thresholds are the fractions thres/ThresDen
ThresDen == 5 + 5

\* (thres numerator, thres_abs): 0.3 relative (the default), 0.0 relative,
\* 1.0 absolute
ThresChoices == {<<3, FALSE>>, <<0, FALSE>>, <<10, TRUE>>}

(***************************************************************************)
(* NumPy helpers.                                                          *)
(***************************************************************************)
Size(a) == Cardinality(DOMAIN a)

Arr(s) == [i \in 0..(Len(s) - 1) |-> s[i + 1]]

ArraysOver(S, n) == [0..(n - 1) -> S]

SetMax(S) == CHOOSE m \in S : \A e \in S : e <= m

SetMin(S) == CHOOSE m \in S : \A e \in S : m <= e

Range(a) == {a[i] : i \in DOMAIN a}

np_max(a) == SetMax(Range(a))

np_min(a) == SetMin(Range(a))

np_diff(a) == [i \in 0..(Size(a) - 2) |-> a[i + 1] - a[i]]

\* np.where(cond)[0]: the ascending sequence of the indices in S
RECURSIVE Ascending(_)
Ascending(S) ==
    IF S = {} THEN <<>>
    ELSE LET m == SetMin(S) IN <<m>> \o Ascending(S \ {m})


\* np.split(z, cuts) for a sequence z and ascending 0-based cut positions
np_split(z, cuts) ==
    LET edges == <<0>> \o cuts \o <<Len(z)>>
    IN  [j \in 1..(Len(cuts) + 1) |-> SubSeq(z, edges[j] + 1, edges[j + 1])]

Elems(s) == {s[j] : j \in 1..Len(s)}

Last(s) == s[Len(s)]

Front(s) == SubSeq(s, 1, Len(s) - 1)

(***************************************************************************)
(* peak_indexes                                                            *)
(***************************************************************************)
UnsignedDtypes == {"uint8", "uint64"}

SignedDtypes == {"float64"}

\* a validation that knows one unsigned dtype only
OnlyUint8(dtype) == dtype = "uint8"

\* line 232: isinstance(y, np.ndarray) and np.issubdtype(y.dtype, np.unsignedinteger)
IsUnsigned(dtype) == dtype \in UnsignedDtypes

\* line 236, scaled by ThresDen: thres * (np.max(y) - np.min(y)) + np.min(y)
RelativeThreshold(t, a) == t * (np_max(a) - np_min(a)) + np_min(a) * ThresDen

\* line 243: (zeros,) = np.where(dy == 0)
Zeros(d) == Ascending({i \in DOMAIN d : d[i] = 0})

\* a flatness test that is off by one
FlatOffByOne(a, d) == Len(Zeros(d)) = Size(a)

\* line 246: len(zeros) == len(y) - 1
TotallyFlat(a, d) == Len(Zeros(d)) = Size(a) - 1

\* lines 251-255: the chains of consecutive zero indexes
ZeroPlateaus(zs) ==
    LET zeros_diff == np_diff(Arr(zs))
        zeros_diff_not_one ==
            Ascending({i + 1 : i \in {j \in DOMAIN zeros_diff : zeros_diff[j] # 1}})
    IN  np_split(zs, zeros_diff_not_one)

\* twice np.median of an ascending sequence of integers
Median2(p) ==
    IF Len(p) % 2 = 1 THEN 2 * p[(Len(p) + 1) \div 2]
    ELSE p[Len(p) \div 2] + p[(Len(p) \div 2) + 1]

\* dy[idx] = v
Assign(d, idx, v) == [i \in DOMAIN d |-> IF i \in idx THEN v ELSE d[i]]

\* lines 258-260: the leftmost plateau takes the slope that follows it
FixLeft(d, zp) ==
    IF zp[1][1] = 0
    THEN <<Assign(d, Elems(zp[1]), d[Last(zp[1]) + 1]), Tail(zp)>>
    ELSE <<d, zp>>

\* lines 263-265: the rightmost plateau takes the slope that precedes it
FixRight(d, zp) ==
    IF Len(zp) > 0 /\ Last(Last(zp)) = Size(d) - 1
    THEN <<Assign(d, Elems(Last(zp)), d[Last(zp)[1] - 1]), Front(zp)>>
    ELSE <<d, zp>>

\* an interior plateau that takes the preceding slope over its whole length
FixPlateauUnsplit(d, plateau) ==
    Assign(d, Elems(plateau), d[plateau[1] - 1])

\* lines 269-273: one interior plateau, split at its median
FixPlateau(d, plateau) ==
    LET median2 == Median2(plateau)
        left == {i \in Elems(plateau) : 2 * i < median2}
        right == {i \in Elems(plateau) : 2 * i >= median2}
        d1 == Assign(d, left, d[plateau[1] - 1])
    IN  Assign(d1, right, d1[Last(plateau) + 1])

\* lines 268-273: for plateau in zero_plateaus
RECURSIVE FixInterior(_, _)
FixInterior(d, zp) ==
    IF zp = <<>> THEN d
    ELSE FixInterior(FixPlateau(d, Head(zp)), Tail(zp))

\* lines 249-273
ResolvePlateaus(d) ==
    LET zs == Zeros(d)
    IN  IF Len(zs) = 0 THEN d
        ELSE LET l == FixLeft(d, ZeroPlateaus(zs))
                 r == FixRight(l[1], l[2])
             IN  FixInterior(r[1], r[2])

\* a threshold test that lets a sample equal to the threshold pass
AtOrAboveThreshold(v, t) == v * ThresDen >= t

\* line 279: np.greater(y, thres), thres scaled by ThresDen
AboveThreshold(v, t) == v * ThresDen > t

\* a search in which the signal falls away beyond both of its ends
CandidatesWithEnds(a, d, t) ==
    Ascending({i \in DOMAIN a :
        /\ (IF i \in DOMAIN d THEN d[i] ELSE -1) < 0
        /\ (IF i = 0 THEN 1 ELSE d[i - 1]) > 0
        /\ AboveThreshold(a[i], t)})

\* lines 276-280
Candidates(a, d, t) ==
    Ascending({i \in DOMAIN a :
        /\ (IF i \in DOMAIN d THEN d[i] ELSE 0) < 0
        /\ (IF i = 0 THEN 0 ELSE d[i - 1]) > 0
        /\ AboveThreshold(a[i], t)})

\* line 283
NeedsPruning(ps, md) == Len(ps) > 1 /\ md > 1

\* line 284: peaks[np.argsort(y[peaks])][::-1]; argsort leaves the order of
\* equal amplitudes open, so every descending arrangement is an outcome
DescendingOrders(a, ps) ==
    {h \in [1..Len(ps) -> Elems(ps)] :
        /\ \A i, j \in 1..Len(ps) : i # j => h[i] # h[j]
        /\ \A i \in 1..(Len(ps) - 1) : a[h[i]] >= a[h[i + 1]]}

\* lines 285-286
InitialRem(a, ps) == [i \in DOMAIN a |-> i \notin Elems(ps)]

\* a loop whose test is inverted, so that no candidate excludes any other
InvertedActive(r, peak) == r[peak]

\* a loop that lets an excluded candidate exclude others
AlwaysActive(r, peak) == TRUE

\* line 289: if not rem[peak]
StillActive(r, peak) == ~r[peak]

\* lines 290-292
Exclude(r, peak, md) ==
    LET lo == IF peak - md > 0 THEN peak - md ELSE 0
        hi == peak + md
    IN  [i \in DOMAIN r |-> IF i = peak THEN FALSE
                            ELSE IF lo <= i /\ i <= hi THEN TRUE ELSE r[i]]

\* line 294: np.arange(y.size)[~rem]
Remaining(r) == Ascending({i \in DOMAIN r : ~r[i]})

\* the documented examples: <<y, thres numerator, thres_abs, min_dist>>
Spike(n, at, h) == [i \in 0..(n - 1) |-> IF i = at THEN h ELSE 0]

TwoSpikes == [i \in 0..19 |-> IF i = 10 THEN 10 ELSE IF i = 12 THEN 8 ELSE 0]

ThreeSpikes == Arr(<<0, 10, 0, 8, 0, 6, 0>>)

ExampleCalls ==
    {<<Spike(100, 50, 10), 3, FALSE, 1>>,
     <<TwoSpikes, 3, FALSE, 5>>,
     <<ThreeSpikes, 3, FALSE, 2>>}

\* a call: the arguments and the dtype of y
PeakCall(a, t, ta, md, dt) ==
    /\ dt \in UnsignedDtypes => \A i \in DOMAIN a : a[i] >= 0
    /\ y = a
    /\ args = [thres |-> t, thres_abs |-> ta, min_dist |-> md, dtype |-> dt]
    /\ thres = t

InitPeak ==
    /\ fn = "peak_indexes"
    /\ \/ \E n \in 1..MaxLen, t \in ThresChoices, md \in 1..MaxDist,
             dt \in SignedDtypes \cup UnsignedDtypes :
             \E a \in ArraysOver(Amplitudes, n) : PeakCall(a, t[1], t[2], md, dt)
       \/ \E c \in ExampleCalls, dt \in SignedDtypes \cup UnsignedDtypes :
             PeakCall(c[1], c[2], c[3], c[4], dt)
    /\ x = <<>>
    /\ pc = "validate"
    /\ err = ""
    /\ warned = FALSE
    /\ result = <<>>
    /\ dy = <<>>
    /\ peaks = <<>>
    /\ highest = <<>>
    /\ rem = <<>>
    /\ k = 0
    /\ steps = <<>>
    /\ half_max = 0
    /\ leveled_y = <<>>
    /\ xi_before = <<>>
    /\ x0 = <<>>
    /\ x1 = <<>>
    /\ y1 = <<>>
    /\ SpectrumIdle /\ DispatchIdle /\ FwhmIdle /\ HeapIdle /\ RatioIdle

\* lines 232-233
Validate ==
    /\ fn = "peak_indexes" /\ pc = "validate"
    /\ IF IsUnsigned(args.dtype)
       THEN pc' = "raised" /\ err' = "ValueError: y must be signed"
       ELSE pc' = "threshold" /\ err' = err
    /\ UNCHANGED <<io, warned, result, peakLocals, nonPeak>>

\* lines 235-236
Threshold ==
    /\ fn = "peak_indexes" /\ pc = "threshold"
    /\ thres' = IF ~args.thres_abs THEN RelativeThreshold(thres, y) ELSE thres
    /\ pc' = "diff"
    /\ UNCHANGED <<io, err, warned, result, dy, peaks, highest, rem, k,
                   nonPeak>>

\* lines 239-247
Diff ==
    /\ fn = "peak_indexes" /\ pc = "diff"
    /\ dy' = np_diff(y)
    /\ IF TotallyFlat(y, dy')
       THEN pc' = "done" /\ result' = <<>>
       ELSE pc' = "plateaus" /\ result' = result
    /\ UNCHANGED <<io, err, warned, thres, peaks, highest, rem, k,
                   nonPeak>>

\* lines 249-273
Plateaus ==
    /\ fn = "peak_indexes" /\ pc = "plateaus"
    /\ dy' = ResolvePlateaus(dy)
    /\ pc' = "find"
    /\ UNCHANGED <<io, err, warned, result, thres, peaks, highest, rem, k,
                   nonPeak>>

\* lines 276-283, and line 296 when no pruning is needed
Find ==
    /\ fn = "peak_indexes" /\ pc = "find"
    /\ peaks' = Candidates(y, dy, thres)
    /\ IF NeedsPruning(peaks', args.min_dist)
       THEN pc' = "sort" /\ result' = result
       ELSE pc' = "done" /\ result' = peaks'
    /\ UNCHANGED <<io, err, warned, thres, dy, highest, rem, k,
                   nonPeak>>

\* lines 284-286
Sort ==
    /\ fn = "peak_indexes" /\ pc = "sort"
    /\ highest' \in DescendingOrders(y, peaks)
    /\ rem' = InitialRem(y, peaks)
    /\ k' = 1
    /\ pc' = "prune"
    /\ UNCHANGED <<io, err, warned, result, thres, dy, peaks,
                   nonPeak>>

\* lines 288-292: one iteration of the loop over highest
Prune ==
    /\ fn = "peak_indexes" /\ pc = "prune" /\ k <= Len(highest)
    /\ rem' = IF StillActive(rem, highest[k])
              THEN Exclude(rem, highest[k], args.min_dist) ELSE rem
    /\ k' = k + 1
    /\ UNCHANGED <<io, pc, err, warned, result, thres, dy, peaks, highest,
                   nonPeak>>

\* lines 294-296
Collect ==
    /\ fn = "peak_indexes" /\ pc = "prune" /\ k > Len(highest)
    /\ peaks' = Remaining(rem)
    /\ result' = peaks'
    /\ pc' = "done"
    /\ UNCHANGED <<io, err, warned, thres, dy, highest, rem, k,
                   nonPeak>>

NextPeak ==
    \/ Validate
    \/ Threshold
    \/ Diff
    \/ Plateaus
    \/ Find
    \/ Sort
    \/ Prune
    \/ Collect

SpecPeak == InitPeak /\ [][NextPeak]_vars


(***************************************************************************)
(* Properties of peak_indexes                                              *)
(***************************************************************************)
PeakDone == fn = "peak_indexes" /\ pc = "done"

Dist(a, b) == IF a >= b THEN a - b ELSE b - a

\* the threshold the arguments stand for, scaled by ThresDen
ResolvedThreshold ==
    IF args.thres_abs THEN args.thres
    ELSE args.thres * (np_max(y) - np_min(y)) + np_min(y) * ThresDen

\* C1: the returned indices are strictly increasing and no two of them are
\* closer than min_dist
C1_PeaksSortedAndSpaced ==
    PeakDone =>
        \A i, j \in 1..Len(result) :
            i < j => /\ result[i] < result[j]
                     /\ result[j] - result[i] >= args.min_dist

C1_Witness ==
    /\ PeakDone
    /\ args.min_dist >= 2
    /\ Len(result) >= 2
    /\ Len(highest) > Len(result)

\* C2: with min_dist > 1 the candidates are visited in descending amplitude;
\* a highest candidate is returned (the highest one when it is unique), a
\* candidate is dropped only when a returned candidate of greater-or-equal
\* amplitude lies within min_dist of it, so a dropped candidate excludes
\* nothing; spikes of 10 and 8 at 10 and 12 with min_dist = 5 give [10]
C2_TallestWins ==
    /\ (fn = "peak_indexes" /\ pc = "prune") =>
          \A i \in 1..(Len(highest) - 1) : y[highest[i]] >= y[highest[i + 1]]
    /\ (PeakDone /\ Len(highest) > 0) =>
          LET P == Elems(highest)
              R == Elems(result)
          IN  /\ R \subseteq P
              /\ \E r \in R : \A c \in P : y[r] >= y[c]
              /\ \A c \in P : (\A d \in P \ {c} : y[c] > y[d]) => c \in R
              /\ \A c \in P \ R :
                    \E r \in R : /\ Dist(r, c) <= args.min_dist
                                 /\ y[r] >= y[c]
    /\ (PeakDone /\ y = TwoSpikes /\ args.min_dist = 5 /\ args.thres = 3) =>
          result = <<10>>

C2_Witness ==
    /\ PeakDone
    /\ y = ThreeSpikes
    /\ highest = <<1, 3, 5>>
    /\ result = <<1, 5>>

\* C3: with min_dist = 1 the result is exactly the indices whose resolved
\* differences change from positive to negative and whose value is above the
\* resolved threshold; each is a local maximum of y; the spike of height 10 at
\* index 50 of 100 zeros gives [50]
C3_CandidatesExact ==
    (PeakDone /\ args.min_dist = 1) =>
        /\ Elems(result) =
              {i \in 1..(Size(y) - 2) :
                  /\ dy[i] < 0
                  /\ dy[i - 1] > 0
                  /\ y[i] * ThresDen > ResolvedThreshold}
        /\ \A j \in 1..(Len(result) - 1) : result[j] < result[j + 1]
        /\ \A i \in Elems(result) :
              /\ 0 < i /\ i < Size(y) - 1
              /\ y[i] >= y[i - 1]
              /\ y[i] >= y[i + 1]
        /\ (y = Spike(100, 50, 10) /\ args.thres = 3 /\ ~args.thres_abs) =>
              result = <<50>>

C3_Witness ==
    /\ PeakDone
    /\ y = Spike(100, 50, 10)
    /\ args.min_dist = 1
    /\ result = <<50>>

IsFlat(a) == \A i \in DOMAIN a : a[i] = a[0]

\* C4: an entirely flat signed signal gives the empty peak set, straight after
\* the differences are taken, whatever the threshold and min_dist, and nothing
\* is raised
C4_FlatGivesEmpty ==
    (fn = "peak_indexes" /\ IsFlat(y) /\ args.dtype \in SignedDtypes) =>
        /\ pc # "raised"
        /\ pc \in {"validate", "threshold", "diff", "done"}
        /\ pc = "done" => result = <<>>

C4_Witness ==
    /\ PeakDone
    /\ IsFlat(y)
    /\ Size(y) >= 3
    /\ args.min_dist > 1
    /\ result = <<>>

\* C5: unsigned input is rejected with ValueError before the threshold, the
\* differences or any peak is computed; signed input is never rejected
C5_UnsignedRejectedFirst ==
    /\ (fn = "peak_indexes" /\ args.dtype \in UnsignedDtypes) =>
          pc \in {"validate", "raised"}
    /\ (fn = "peak_indexes" /\ pc = "raised") =>
          /\ args.dtype \in UnsignedDtypes
          /\ err = "ValueError: y must be signed"
          /\ thres = args.thres
          /\ dy = <<>>
          /\ peaks = <<>>
          /\ result = <<>>

C5_Witness ==
    /\ fn = "peak_indexes"
    /\ pc = "raised"
    /\ args.dtype = "uint64"
    /\ Size(y) >= 3

(***************************************************************************)
(* Exact fractions <<num, den>> for float64 quotients: den > 0 in lowest    *)
(* terms, <<1, 0>> and <<-1, 0>> for +inf and -inf, <<0, 0>> for NaN.      *)
(***************************************************************************)
Abs(n) == IF n < 0 THEN -n ELSE n

Sign(n) == IF n > 0 THEN 1 ELSE IF n < 0 THEN -1 ELSE 0

RECURSIVE GCD(_, _)
GCD(a, b) == IF b = 0 THEN a ELSE GCD(b, a % b)

Frac(n, d) ==
    IF d = 0 THEN <<Sign(n), 0>>
    ELSE LET g == GCD(Abs(n), Abs(d))
         IN  <<Sign(d) * (n \div g), Abs(d) \div g>>

Q(n) == <<n, 1>>

NaN == <<0, 0>>

IsFinite(q) == q[2] # 0

QNeg(a) == <<-a[1], a[2]>>

QAdd(a, b) ==
    IF a[2] = 0 /\ b[2] = 0 THEN (IF a = b THEN a ELSE NaN)
    ELSE Frac(a[1] * b[2] + b[1] * a[2], a[2] * b[2])

QSub(a, b) == QAdd(a, QNeg(b))

QMul(a, b) == Frac(a[1] * b[1], a[2] * b[2])

QDiv(a, b) == Frac(a[1] * b[2], a[2] * b[1])

(***************************************************************************)
(* sampling_period, sampling_rate                                          *)
(*                                                                         *)
(* Abscissae are counted in units of 5e-11, so that the tolerance 1e-10 of *)
(* np.isclose is two units.                                                *)
(***************************************************************************)
MaxSamples == 5
MaxStep == 5

\* line 811: atol=1e-10, in units of 5e-11
Atol == 2

\* the arrays that start at 0 and advance by the given steps
RECURSIVE CumSum(_, _)
CumSum(from, st) ==
    IF st = <<>> THEN <<from>>
    ELSE <<from>> \o CumSum(from + Head(st), Tail(st))

IncreasingArrays(n, stepSet) ==
    {Arr(CumSum(0, st)) : st \in [1..(n - 1) -> stepSet]}

\* line 811: np.isclose(a, 0, atol=1e-10); the relative term is rtol * |0|
IsCloseToZero(a) == Abs(a) <= Atol

\* line 811: np.diff(steps).max() is undefined on an empty array
MaxIsUndefined(st) == Size(np_diff(st)) = 0

\* line 811: not np.isclose(np.diff(steps).max(), 0, atol=1e-10)
NotConstant(st) == ~IsCloseToZero(np_max(np_diff(st)))

InitSampling ==
    /\ fn \in {"sampling_period", "sampling_rate"}
    /\ x \in UNION {IncreasingArrays(n, 1..MaxStep) : n \in 2..MaxSamples}
    /\ y = <<>>
    /\ args = <<>>
    /\ pc = "steps"
    /\ err = ""
    /\ warned = FALSE
    /\ result = <<>>
    /\ steps = <<>>
    /\ thres = 0
    /\ dy = <<>>
    /\ peaks = <<>>
    /\ highest = <<>>
    /\ rem = <<>>
    /\ k = 0
    /\ half_max = 0
    /\ leveled_y = <<>>
    /\ xi_before = <<>>
    /\ x0 = <<>>
    /\ x1 = <<>>
    /\ y1 = <<>>
    /\ SpectrumIdle /\ DispatchIdle /\ FwhmIdle /\ HeapIdle /\ RatioIdle

\* line 810, entered directly or through line 825
Steps ==
    /\ fn \in {"sampling_period", "sampling_rate"} /\ pc = "steps"
    /\ steps' = np_diff(x)
    /\ pc' = "check"
    /\ UNCHANGED <<io, err, warned, result, nonSampling>>

\* lines 811-812
CheckSampling ==
    /\ fn \in {"sampling_period", "sampling_rate"} /\ pc = "check"
    /\ IF MaxIsUndefined(steps)
       THEN /\ pc' = "raised"
            /\ err' = "ValueError: zero-size array to reduction operation maximum"
            /\ warned' = warned
       ELSE /\ pc' = "return"
            /\ err' = err
            /\ warned' = NotConstant(steps)
    /\ UNCHANGED <<io, result, steps, nonSampling>>

\* line 813, and line 825 for sampling_rate
ReturnPeriod ==
    /\ fn \in {"sampling_period", "sampling_rate"} /\ pc = "return"
    /\ result' = IF fn = "sampling_period" THEN Q(steps[0])
                 ELSE QDiv(Q(1), Q(steps[0]))
    /\ pc' = "done"
    /\ UNCHANGED <<io, err, warned, steps, nonSampling>>

NextSampling ==
    \/ Steps
    \/ CheckSampling
    \/ ReturnPeriod

SpecSampling == InitSampling /\ [][NextSampling]_vars

\* consecutive steps differ by more than the tolerance somewhere
StepsDiffer(a) ==
    \E i \in 0..(Size(a) - 3) :
        Abs((a[i + 2] - a[i + 1]) - (a[i + 1] - a[i])) > Atol

\* C6: sampling_period warns exactly when the steps are not all equal within
\* the tolerance, also when the steps only decrease
C6_WarnsIffStepsDiffer ==
    (fn \in {"sampling_period", "sampling_rate"} /\ pc \in {"done", "raised"}) =>
        (warned <=> StepsDiffer(x))

\* C7: for strictly increasing x of two or more samples sampling_period returns
\* x[1] - x[0], sampling_rate its reciprocal, and nothing is raised
C7_PeriodAlwaysReturned ==
    (fn \in {"sampling_period", "sampling_rate"} /\ pc \notin {"steps", "check", "return"}) =>
        /\ pc = "done"
        /\ fn = "sampling_period" => result = Q(x[1] - x[0])
        /\ fn = "sampling_rate" => result = Frac(1, x[1] - x[0])

(***************************************************************************)
(* find_nearest_zero_point_idx, find_x_at_value, bandwidth                 *)
(***************************************************************************)
MaxPts == 4

\* values searched by find_x_at_value and levels given to bandwidth
FindValues == {0, 1}

Levels == {1, 3}

\* brackets that count strict sign changes only
StrictSignChanges(a) ==
    Ascending({i \in 0..(Size(a) - 2) :
        \/ (a[i] > 0 /\ a[i + 1] < 0)
        \/ (a[i] < 0 /\ a[i + 1] > 0)})

\* brackets that keep the falling crossings only
FallingCrossings(a) ==
    Ascending({i \in 0..(Size(a) - 2) : a[i] >= 0 /\ a[i + 1] <= 0})

\* line 450
find_nearest_zero_point_idx(a) ==
    Ascending({i \in 0..(Size(a) - 2) :
        \/ (a[i] >= 0 /\ a[i + 1] <= 0)
        \/ (a[i] <= 0 /\ a[i + 1] >= 0)})

\* line 466: y - value
Leveled(a, value) == [i \in DOMAIN a |-> a[i] - value]

\* lines 468, 474-476, for the bracket that starts at index before
Intercept(xs, ly, before) ==
    LET after == before + 1
        p == QDiv(Q(ly[after] - ly[before]), Q(xs[after] - xs[before]))
        ori == QSub(Q(ly[after]), QMul(p, Q(xs[after])))
    IN  QDiv(QNeg(ori), p)

\* lines 474-477: one estimate per entry of xi_before
Interpolate(xs, ly, xi) == [j \in 1..Len(xi) |-> Intercept(xs, ly, xi[j])]

\* line 491
HalfMax(a, level) == np_max(a) - level

\* lines 492-493
Coords(xs, hm, fx) == <<Q(xs[0]), Q(hm), fx[1], Q(hm)>>

\* a call of find_x_at_value (with a value) or bandwidth (with a level)
FindCall(f, xs, ys, v) ==
    /\ fn = f
    /\ x = xs
    /\ y = ys
    /\ args = IF f = "bandwidth" THEN [level |-> v] ELSE [value |-> v]
    /\ pc = IF f = "bandwidth" THEN "half_max" ELSE "level"

InitFind ==
    /\ \/ \E n \in 1..MaxPts :
             \E xs \in IncreasingArrays(n, {1, 2}), ys \in ArraysOver(Amplitudes, n) :
                \/ \E v \in FindValues : FindCall("find_x_at_value", xs, ys, v)
                \/ \E v \in Levels : FindCall("bandwidth", xs, ys, v)
       \/ FindCall("find_x_at_value", Arr(<<0, 1, 2, 3>>), Arr(<<-1, 1, 3, 5>>), 0)
    /\ err = ""
    /\ warned = FALSE
    /\ result = <<>>
    /\ half_max = 0
    /\ leveled_y = <<>>
    /\ xi_before = <<>>
    /\ x0 = <<>>
    /\ steps = <<>>
    /\ thres = 0
    /\ dy = <<>>
    /\ peaks = <<>>
    /\ highest = <<>>
    /\ rem = <<>>
    /\ k = 0
    /\ x1 = <<>>
    /\ y1 = <<>>
    /\ SpectrumIdle /\ DispatchIdle /\ FwhmIdle /\ HeapIdle /\ RatioIdle

\* lines 490-491
BandwidthLevel ==
    /\ fn = "bandwidth" /\ pc = "half_max"
    /\ half_max' = HalfMax(y, args.level)
    /\ pc' = "level"
    /\ UNCHANGED <<io, err, warned, result, leveled_y, xi_before, x0, nonFind>>

\* line 466, entered directly or through line 492
Level ==
    /\ fn \in {"find_x_at_value", "bandwidth"} /\ pc = "level"
    /\ leveled_y' = Leveled(y, IF fn = "bandwidth" THEN half_max ELSE args.value)
    /\ pc' = "brackets"
    /\ UNCHANGED <<io, err, warned, result, half_max, xi_before, x0, nonFind>>

\* lines 467-471
Brackets ==
    /\ fn \in {"find_x_at_value", "bandwidth"} /\ pc = "brackets"
    /\ xi_before' = find_nearest_zero_point_idx(leveled_y)
    /\ IF Len(xi_before') = 0
       THEN /\ x0' = <<Q(0)>>
            /\ IF fn = "bandwidth"
               THEN pc' = "coords" /\ result' = result
               ELSE pc' = "done" /\ result' = x0'
       ELSE pc' = "interpolate" /\ x0' = x0 /\ result' = result
    /\ UNCHANGED <<io, err, warned, half_max, leveled_y, nonFind>>

\* lines 474-477
Interpolation ==
    /\ fn \in {"find_x_at_value", "bandwidth"} /\ pc = "interpolate"
    /\ x0' = Interpolate(x, leveled_y, xi_before)
    /\ IF fn = "bandwidth"
       THEN pc' = "coords" /\ result' = result
       ELSE pc' = "done" /\ result' = x0'
    /\ UNCHANGED <<io, err, warned, half_max, leveled_y, xi_before, nonFind>>

\* lines 492-494
BandwidthCoords ==
    /\ fn = "bandwidth" /\ pc = "coords"
    /\ result' = Coords(x, half_max, x0)
    /\ pc' = "done"
    /\ UNCHANGED <<io, err, warned, half_max, leveled_y, xi_before, x0, nonFind>>

NextFind ==
    \/ BandwidthLevel
    \/ Level
    \/ Brackets
    \/ Interpolation
    \/ BandwidthCoords

SpecFind == InitFind /\ [][NextFind]_vars

\* the brackets of y - value: consecutive samples that straddle or touch it
BracketsOf(a, value) ==
    {i \in 0..(Size(a) - 2) :
        \/ (a[i] >= value /\ a[i + 1] <= value)
        \/ (a[i] <= value /\ a[i + 1] >= value)}

\* q is the abscissa at which the chord from sample i to sample i + 1 takes
\* the given value
OnChord(q, xs, a, i, value) ==
    /\ q[2] > 0
    /\ (q[1] - xs[i] * q[2]) * (a[i + 1] - a[i])
          = (value - a[i]) * (xs[i + 1] - xs[i]) * q[2]

\* C8: find_x_at_value returns one estimate per bracket of y - value, in
\* ascending bracket order, each the linear interpolation across its bracket
\* (where the bracket has a slope), and [0.0] when there is no bracket;
\* x = [0,1,2,3], y = [-1,1,3,5], value = 0 gives [0.5]
C8_OneEstimatePerBracket ==
    (fn = "find_x_at_value" /\ pc = "done") =>
        LET B == Ascending(BracketsOf(y, args.value))
        IN  /\ B = <<>> => result = <<Q(0)>>
            /\ B # <<>> =>
                  /\ Len(result) = Len(B)
                  /\ \A j \in 1..Len(B) :
                        y[B[j] + 1] # y[B[j]] =>
                            OnChord(result[j], x, y, B[j], args.value)
            /\ (x = Arr(<<0, 1, 2, 3>>) /\ y = Arr(<<-1, 1, 3, 5>>)) =>
                  result = <<<<1, 2>>>>

C8_Witness ==
    /\ fn = "find_x_at_value" /\ pc = "done"
    /\ x = Arr(<<0, 1, 2, 3>>)
    /\ y = Arr(<<-1, 1, 3, 5>>)
    /\ result = <<<<1, 2>>>>

\* C9: bandwidth returns (x_left, half_level, x_right, half_level) with
\* half_level = max(y) - level and x_left, x_right the first two crossings
\* of that level found by find_x_at_value
C9_FirstCrossingPair ==
    (fn = "bandwidth" /\ pc = "done" /\ Len(x0) >= 2
        /\ \A j \in 1..Len(x0) : IsFinite(x0[j])) =>
        result = <<x0[1], Q(np_max(y) - args.level), x0[2], Q(np_max(y) - args.level)>>

(***************************************************************************)
(* fft1d, ifft1d                                                           *)
(*                                                                         *)
(* The discrete Fourier transform is the sum  Y[k] = SUM y[j] w^(-jk)  and *)
(* its inverse  y[j] = (1/n) SUM Y[k] w^(jk)  for a primitive n-th root of *)
(* unity w.  The sums are evaluated in the prime field of FieldP elements, *)
(* which holds an exact primitive n-th root of unity for every length n    *)
(* used here, so the transform is exact.  Samples are read back from their *)
(* residues by Decode; the imaginary part that .real discards is the       *)
(* rounding residue of float arithmetic and has no counterpart.            *)
(***************************************************************************)
MaxN == 5

FieldP == 60 + 1

RECURSIVE Pow(_, _)
Pow(b, e) == IF e = 0 THEN 1 ELSE (b * Pow(b, e - 1)) % FieldP

\* 2 generates the multiplicative group of the field
Root(n) == Pow(2, (FieldP - 1) \div n)

Inv(a) == Pow(a % FieldP, FieldP - 2)

Decode(v) == IF 2 * v > FieldP THEN v - FieldP ELSE v

RECURSIVE SumUpTo(_, _)
SumUpTo(f, m) == IF m < 0 THEN 0 ELSE (f[m] + SumUpTo(f, m - 1)) % FieldP

\* np.fft.fft
np_fft(a) ==
    LET n == Size(a)
        w == Root(n)
    IN  [kk \in 0..(n - 1) |->
            SumUpTo([j \in 0..(n - 1) |->
                        ((a[j] % FieldP) * Pow(w, (n * n - j * kk) % n)) % FieldP],
                    n - 1)]

\* np.fft.ifft
np_ifft(a) ==
    LET n == Size(a)
        w == Root(n)
        scale == Inv(n)
    IN  [j \in 0..(n - 1) |->
            (scale * SumUpTo([kk \in 0..(n - 1) |->
                                 (a[kk] * Pow(w, (j * kk) % n)) % FieldP],
                             n - 1)) % FieldP]

\* np.fft.fftfreq(n, d): the bins 0, 1, ..., (n-1)//2, -(n//2), ..., -1 over d*n
np_fftfreq(n, d) ==
    [i \in 0..(n - 1) |->
        Frac(IF i <= (n - 1) \div 2 THEN i ELSE i - n, d * n)]

\* np.roll(a, shift)
np_roll(a, shift) ==
    LET n == Size(a)
    IN  [i \in 0..(n - 1) |-> a[(i - shift + n) % n]]

\* np.fft.fftshift
np_fftshift(a) == np_roll(a, Size(a) \div 2)

\* an inverse shift that rolls the same way as the forward shift
RollForwardAgain(a) == np_roll(a, Size(a) \div 2)

\* np.fft.ifftshift
np_ifftshift(a) == np_roll(a, -(Size(a) \div 2))

\* lines 103-108: <<x1, y1>>
fft1d(xs, ys, shift) ==
    LET yf == np_fft(ys)
        xf == np_fftfreq(Size(xs), xs[1] - xs[0])
    IN  IF shift THEN <<np_fftshift(xf), np_fftshift(yf)>> ELSE <<xf, yf>>

\* line 128
TimeStep(xs) ==
    QDiv(Q(1), QAdd(QSub(xs[Size(xs) - 1], xs[0]), QSub(xs[1], xs[0])))

\* lines 124-130: <<x1, y1.real>>
ifft1d(xs, ys, shift) ==
    LET yt == np_ifft(IF shift THEN np_ifftshift(ys) ELSE ys)
        dt == TimeStep(xs)
    IN  <<[i \in 0..(Size(yt) - 1) |-> QMul(Q(i), dt)],
          [i \in DOMAIN yt |-> Decode(yt[i])]>>

UniformArray(n, d) == [i \in 0..(n - 1) |-> i * d]

InitFft ==
    /\ fn = "ifft1d(*fft1d)"
    /\ \E n \in 2..MaxN :
          /\ y \in ArraysOver(Amplitudes, n)
          /\ x \in {UniformArray(n, d) : d \in {1, 2}}
    /\ args \in [shift : BOOLEAN, ishift : BOOLEAN]
    /\ pc = "fft1d"
    /\ err = ""
    /\ warned = FALSE
    /\ result = <<>>
    /\ x1 = <<>>
    /\ y1 = <<>>
    /\ half_max = 0
    /\ leveled_y = <<>>
    /\ xi_before = <<>>
    /\ x0 = <<>>
    /\ steps = <<>>
    /\ thres = 0
    /\ dy = <<>>
    /\ peaks = <<>>
    /\ highest = <<>>
    /\ rem = <<>>
    /\ k = 0
    /\ SpectrumIdle /\ DispatchIdle /\ FwhmIdle /\ HeapIdle /\ RatioIdle

\* lines 103-108
Fft1d ==
    /\ fn = "ifft1d(*fft1d)" /\ pc = "fft1d"
    /\ LET spectrum == fft1d(x, y, args.shift)
       IN  x1' = spectrum[1] /\ y1' = spectrum[2]
    /\ pc' = "ifft1d"
    /\ UNCHANGED <<io, err, warned, result, nonFft>>

\* lines 124-130
Ifft1d ==
    /\ fn = "ifft1d(*fft1d)" /\ pc = "ifft1d"
    /\ result' = ifft1d(x1, y1, args.ishift)
    /\ pc' = "done"
    /\ UNCHANGED <<io, err, warned, x1, y1, nonFft>>

NextFft ==
    \/ Fft1d
    \/ Ifft1d

SpecFft == InitFft /\ [][NextFft]_vars

\* C10: for real y of any length n >= 2 the round trip through fft1d and
\* ifft1d with the same shift flag returns the samples of y in their order
C10_RoundTrip ==
    (fn = "ifft1d(*fft1d)" /\ pc = "done" /\ args.shift = args.ishift) =>
        result[2] = y

C10_Witness ==
    /\ fn = "ifft1d(*fft1d)" /\ pc = "done"
    /\ args.shift /\ args.ishift
    /\ Size(y) = 5
    /\ y1 # np_fft(y)
    /\ y[0] # y[1] /\ y[1] # y[2]
    /\ result[2] = y

\* ------------------------------------------------------------------
\* magnitude_spectrum, psd, sort_frequencies (lines 133-198)
\*
\* Here the coefficients keep their real and imaginary parts: a complex
\* number is <<re, im>> over the integers, and the transform is exact for
\* the lengths whose roots of unity are 1, -i, -1 and i.
GaussianLengths == {2, 2 * 2}

\* exp(-2 pi i q / 4)
QuarterTurn(q) ==
    CASE q % 4 = 0 -> <<1, 0>>
      [] q % 4 = 1 -> <<0, -1>>
      [] q % 4 = 2 -> <<-1, 0>>
      [] OTHER -> <<0, 1>>

CAdd(a, b) == <<a[1] + b[1], a[2] + b[2]>>

CMul(a, b) == <<a[1] * b[1] - a[2] * b[2], a[1] * b[2] + a[2] * b[1]>>

RECURSIVE CSum(_, _)
CSum(terms, m) == IF m < 0 THEN <<0, 0>> ELSE CAdd(terms[m], CSum(terms, m - 1))

\* np.fft.fft of a real array whose length is in GaussianLengths
np_fft_complex(a) ==
    LET n == Size(a)
    IN  [kk \in 0..(n - 1) |->
            CSum([j \in 0..(n - 1) |->
                     CMul(<<a[j], 0>>, QuarterTurn(j * kk * (4 \div n)))],
                 n - 1)]

\* lines 103-108 with complex coefficients: <<x1, y1>>
fft1d_complex(xs, ys, shift) ==
    LET yf == np_fft_complex(ys)
        xf == np_fftfreq(Size(xs), xs[1] - xs[0])
    IN  IF shift THEN <<np_fftshift(xf), np_fftshift(yf)>> ELSE <<xf, yf>>

\* |c|^2, an integer
MagSq(c) == c[1] * c[1] + c[2] * c[2]

\* np.abs of a complex array: each magnitude is the square root of an integer
np_abs(a) == [i \in DOMAIN a |-> <<"sqrt", MagSq(a[i])>>]

\* line 148: 20 * np.log10(m), element by element
Decibels20(a) == [i \in DOMAIN a |-> <<"20*log10", a[i]>>]

\* line 183: 10 * np.log10(p), element by element
Decibels10(a) == [i \in DOMAIN a |-> <<"10*log10", a[i]>>]

\* the values scipy.signal.welch may estimate for one bin
PowerLevels == {1, 2}

\* line 181: the frequencies of sps.welch for a signal shorter than its
\* default segment: np.fft.rfftfreq(n, 1 / fs) with fs = 1 / steps[0]
WelchFrequencies(n, st) == [i \in 0..(n \div 2) |-> Frac(i, n * st[0])]

\* np.argsort compares complex numbers by real part, then imaginary part
ComplexLeq(a, b) == a[1] < b[1] \/ (a[1] = b[1] /\ a[2] <= b[2])

\* line 198: the index orders np.argsort(fourier) may return (the order
\* among equal coefficients is not specified)
ArgsortOrders(a) ==
    LET n == Size(a)
    IN  {o \in [0..(n - 1) -> 0..(n - 1)] :
            /\ \A i, j \in 0..(n - 1) : i # j => o[i] # o[j]
            /\ \A i \in 0..(n - 2) : ComplexLeq(a[o[i]], a[o[i + 1]])}

SpectrumCall(name, a) ==
    /\ fn = name
    /\ args = a
    /\ pc = IF name = "psd" THEN "sampling_rate" ELSE "fft1d"

InitSpectrum ==
    /\ \E n \in GaussianLengths :
          /\ y \in ArraysOver(Amplitudes, n)
          /\ x \in IncreasingArrays(n, {1, 2})
    /\ \/ \E b \in BOOLEAN : SpectrumCall("magnitude_spectrum", [log_scale |-> b])
       \/ \E b \in BOOLEAN : SpectrumCall("psd", [log_scale |-> b])
       \/ SpectrumCall("sort_frequencies", <<>>)
    /\ err = ""
    /\ warned = FALSE
    /\ result = <<>>
    /\ PeakIdle /\ SamplingIdle /\ FindIdle /\ FftIdle
    /\ SpectrumIdle /\ DispatchIdle /\ FwhmIdle /\ HeapIdle /\ RatioIdle

nonSpectrum == <<peakLocals, findLocals, dispatchLocals, fwhmLocals, heapVars, ratioLocals>>

\* line 146 (shift defaults to True) and line 197 (shift=False)
Transform ==
    /\ fn \in {"magnitude_spectrum", "sort_frequencies"} /\ pc = "fft1d"
    /\ LET spectrum == fft1d_complex(x, y, fn = "magnitude_spectrum")
       IN  x1' = spectrum[1] /\ y1' = spectrum[2]
    /\ pc' = IF fn = "magnitude_spectrum" THEN "log_scale" ELSE "argsort"
    /\ UNCHANGED <<io, err, warned, result, steps, spectrumLocals, nonSpectrum>>

\* lines 147-148
LogMagnitude ==
    /\ fn = "magnitude_spectrum" /\ pc = "log_scale"
    /\ y_mag' = IF args.log_scale THEN Decibels20(np_abs(y1)) ELSE y_mag
    /\ pc' = "abs"
    /\ UNCHANGED <<io, err, warned, result, steps, fftLocals, f_welch, pxx,
                   nonSpectrum>>

\* line 149: not under an else, so it runs for either value of log_scale
Magnitude ==
    /\ fn = "magnitude_spectrum" /\ pc = "abs"
    /\ y_mag' = np_abs(y1)
    /\ pc' = "return"
    /\ UNCHANGED <<io, err, warned, result, steps, fftLocals, f_welch, pxx,
                   nonSpectrum>>

\* line 150
ReturnSpectrum ==
    /\ fn = "magnitude_spectrum" /\ pc = "return"
    /\ result' = <<x1, y_mag>>
    /\ pc' = "done"
    /\ UNCHANGED <<io, err, warned, steps, fftLocals, spectrumLocals, nonSpectrum>>

\* line 181, the argument fs=sampling_rate(x): lines 810-813 and 825
SamplingRate ==
    /\ fn = "psd" /\ pc = "sampling_rate"
    /\ steps' = np_diff(x)
    /\ IF MaxIsUndefined(steps')
       THEN /\ pc' = "raised"
            /\ err' = "ValueError: zero-size array to reduction operation maximum"
            /\ warned' = warned
       ELSE /\ pc' = "welch"
            /\ err' = err
            /\ warned' = NotConstant(steps')
    /\ UNCHANGED <<io, result, fftLocals, spectrumLocals, nonSpectrum>>

\* line 181: f, pxx = sps.welch(y, fs=...)
Welch ==
    /\ fn = "psd" /\ pc = "welch"
    /\ f_welch' = WelchFrequencies(Size(y), steps)
    /\ pxx' \in ArraysOver(PowerLevels, Size(y) \div 2 + 1)
    /\ pc' = "return"
    /\ UNCHANGED <<io, err, warned, result, steps, fftLocals, y_mag, nonSpectrum>>

\* lines 182-184: an array alone when log_scale, the pair otherwise
ReturnPsd ==
    /\ fn = "psd" /\ pc = "return"
    /\ result' = IF args.log_scale
                 THEN [type |-> "ndarray", values |-> Decibels10(pxx)]
                 ELSE [type |-> "tuple", values |-> <<f_welch, pxx>>]
    /\ pc' = "done"
    /\ UNCHANGED <<io, err, warned, steps, fftLocals, spectrumLocals, nonSpectrum>>

\* line 198: freqs[np.argsort(fourier)]
Argsort ==
    /\ fn = "sort_frequencies" /\ pc = "argsort"
    /\ \E o \in ArgsortOrders(y1) : result' = [i \in DOMAIN x1 |-> x1[o[i]]]
    /\ pc' = "done"
    /\ UNCHANGED <<io, err, warned, steps, fftLocals, spectrumLocals, nonSpectrum>>

NextSpectrum ==
    \/ Transform
    \/ LogMagnitude
    \/ Magnitude
    \/ ReturnSpectrum
    \/ SamplingRate
    \/ Welch
    \/ ReturnPsd
    \/ Argsort

SpecSpectrum == InitSpectrum /\ [][NextSpectrum]_vars

\* C11: magnitude_spectrum returns 20*log10(|Y|) of the shifted transform
\* when log_scale is true and |Y| itself when it is false
C11_LogScaleInDecibels ==
    (fn = "magnitude_spectrum" /\ pc = "done") =>
        result = <<x1, IF args.log_scale THEN Decibels20(np_abs(y1))
                       ELSE np_abs(y1)>>

\* C12: psd returns the pair (frequency axis, power values) for either
\* value of log_scale, the power values in 10*log10 when it is true
C12_PsdReturnsPair ==
    (fn = "psd" /\ pc = "done") =>
        /\ result.type = "tuple"
        /\ result.values[1] = f_welch
        /\ result.values[2] = IF args.log_scale THEN Decibels10(pxx) ELSE pxx

\* the coefficient of the transform at a frequency of the unshifted axis
CoefficientAt(freq) == y1[CHOOSE i \in DOMAIN x1 : x1[i] = freq]

\* C13: sort_frequencies returns a permutation of the unshifted frequency
\* axis in which the coefficient magnitudes never decrease
C13_SortedByMagnitude ==
    (fn = "sort_frequencies" /\ pc = "done") =>
        /\ Range(result) = Range(x1)
        /\ Size(result) = Size(x1)
        /\ \A i \in 0..(Size(result) - 2) :
              MagSq(CoefficientAt(result[i])) <= MagSq(CoefficientAt(result[i + 1]))

\* ------------------------------------------------------------------
\* normalize (lines 54-87), interpolate (315-367), windowing (370-438)
MaxQueries == 2

None == <<>>

RECURSIVE ArraySum(_, _)
ArraySum(a, m) == IF m < 0 THEN 0 ELSE a[m] + ArraySum(a, m - 1)

\* yin.sum()
np_sum(a) == ArraySum(a, Size(a) - 1)

\* lines 69-73: yin / maxarray
NormalizeMaximum(yin) == [i \in DOMAIN yin |-> Frac(yin[i], np_max(yin))]

\* lines 75-79: the copy of yin, lowered by its minimum
Shifted(yin) == [i \in DOMAIN yin |-> yin[i] - np_min(yin)]

\* np.sum(yin * yin.conjugate()) of a real array
SumOfSquares(yin) == np_sum([i \in DOMAIN yin |-> yin[i] * yin[i]])

\* yin / np.sqrt(s): the square root is kept as a term
OverRoot(yin, s) == [i \in DOMAIN yin |-> <<yin[i], "/sqrt", s>>]

\* lines 67-87: the value returned, or the error raised
normalize(yin, parameter) ==
    CASE parameter = "maximum" ->
            [raised |-> "", value |-> NormalizeMaximum(yin)]
      [] parameter = "amplitude" ->
            [raised |-> "", value |-> NormalizeMaximum(Shifted(yin))]
      [] parameter = "area" ->
            [raised |-> "", value |-> [i \in DOMAIN yin |-> Frac(yin[i], np_sum(yin))]]
      [] parameter = "energy" ->
            [raised |-> "", value |-> OverRoot(yin, Q(SumOfSquares(yin)))]
      [] parameter = "rms" ->
            [raised |-> "",
             value |-> OverRoot(yin, Frac(SumOfSquares(yin), Size(yin)))]
      [] OTHER ->
            [raised |-> "RuntimeError: Unsupported parameter", value |-> <<>>]

\* a window table without the last of its entries
WindowsButTaylor ==
    {"barthann", "bartlett", "blackman", "blackman-harris", "bohman",
     "boxcar", "cosine", "exponential", "flat-top", "hamming", "hanning",
     "lanczos", "nuttall", "parzen", "rectangular"}

\* lines 410-427: the keys of the table of windows without parameters
win_func ==
    {"barthann", "bartlett", "blackman", "blackman-harris", "bohman",
     "boxcar", "cosine", "exponential", "flat-top", "hamming", "hanning",
     "lanczos", "nuttall", "parzen", "rectangular", "taylor"}

\* y * window(len(y)): the window coefficients are kept as terms
Windowed(ys, window) == [i \in DOMAIN ys |-> <<ys[i], "*", window, i, Size(ys)>>]

\* lines 428-438: the value returned, or the error raised
windowing(ys, method) ==
    CASE method \in win_func -> [raised |-> "", value |-> Windowed(ys, method)]
      [] method = "tukey" -> [raised |-> "", value |-> Windowed(ys, "tukey")]
      [] method = "kaiser" -> [raised |-> "", value |-> Windowed(ys, "kaiser")]
      [] method = "gaussian" -> [raised |-> "", value |-> Windowed(ys, "gaussian")]
      [] OTHER -> [raised |-> "ValueError: Invalid window type", value |-> <<>>]

\* ynew[xnew < x[0]], ynew[xnew > x[-1]]: the points the masks select
Below(xq, xs) == xq < xs[0]

\* a right-hand mask that also takes the last abscissa
AtOrAbove(xq, xs) == xq >= xs[Size(xs) - 1]

Above(xq, xs) == xq > xs[Size(xs) - 1]

\* an element of ynew: where it comes from, the abscissa, and its value
\* when the model computes it
Element(from, xq, value) == [from |-> from, at |-> xq, value |-> value]

\* the value of an interpolant of SciPy or NumPy at xq, kept as a term
Evaluated(interpolant, xq) == Element(interpolant, xq, <<>>)

Filled(fill_value, xq) == Element("fill_value", xq, Q(fill_value[1]))

\* np.interp inside [x[0], x[-1]]: the chord of the segment that holds xq
Chord(xs, ys, xq) ==
    LET i == CHOOSE j \in 0..(Size(xs) - 2) : xs[j] <= xq /\ xq <= xs[j + 1]
    IN  QAdd(Q(ys[i]), Frac((xq - xs[i]) * (ys[i + 1] - ys[i]), xs[i + 1] - xs[i]))

\* line 340: np.interp(xnew, x, y, left=fill_value, right=fill_value); a
\* side that is None takes the first or the last ordinate
np_interp(xq, xs, ys, fill_value) ==
    IF xq < xs[0]
    THEN (IF fill_value = None THEN Element("np.interp", xq, Q(ys[0]))
          ELSE Filled(fill_value, xq))
    ELSE IF xq > xs[Size(xs) - 1]
    THEN (IF fill_value = None THEN Element("np.interp", xq, Q(ys[Size(ys) - 1]))
          ELSE Filled(fill_value, xq))
    ELSE Element("np.interp", xq, Chord(xs, ys, xq))

\* line 363: interpolator_extrap(xnew, extrapolate=...) gives NaN outside
\* the data when it does not extrapolate
Extrapolator(interpolant, xq, xs, extrapolate) ==
    IF ~extrapolate /\ (xq < xs[0] \/ xq > xs[Size(xs) - 1])
    THEN Element("nan", xq, NaN)
    ELSE Evaluated(interpolant, xq)

\* the abscissae asked of interpolate
QueryPoints == {-1, 0, 1, 6, 7}

\* the names given to the calls: every supported one and some others
NormalizeNames == {"maximum", "amplitude", "area", "energy", "rms", "max", ""}

WindowNames ==
    {"barthann", "bartlett", "blackman", "blackman-harris", "bohman",
     "boxcar", "cosine", "exponential", "flat-top", "hamming", "hanning",
     "lanczos", "nuttall", "parzen", "rectangular", "taylor", "tukey",
     "kaiser", "gaussian", "hann", ""}

InterpolateNames ==
    {"linear", "spline", "quadratic", "cubic", "barycentric", "pchip",
     "nearest"}

DispatchCall(name, a, start) ==
    /\ fn = name
    /\ args = a
    /\ pc = start

InitDispatch ==
    /\ \/ /\ \E p \in NormalizeNames :
                DispatchCall("normalize", [parameter |-> p], "normalize")
          /\ \E n \in 1..3 : y \in ArraysOver(Amplitudes, n)
          /\ x = <<>> /\ xnew = <<>>
       \/ /\ \E w \in WindowNames :
                DispatchCall("windowing", [method |-> w], "windowing")
          /\ \E n \in 1..3 : y \in ArraysOver(Amplitudes, n)
          /\ x = <<>> /\ xnew = <<>>
       \/ /\ \E w \in InterpolateNames, fv \in {None, <<-1>>} :
                DispatchCall("interpolate", [method |-> w, fill_value |-> fv],
                             "select")
          /\ \E d \in {1, 2} : x = UniformArray(4, d)
          /\ y \in ArraysOver({0, 1}, 4)
          /\ \E n \in 1..MaxQueries : xnew \in ArraysOver(QueryPoints, n)
    /\ err = ""
    /\ warned = FALSE
    /\ result = <<>>
    /\ ynew = <<>>
    /\ interpolator_extrap = "None"
    /\ PeakIdle /\ SamplingIdle /\ FindIdle /\ FftIdle
    /\ SpectrumIdle /\ FwhmIdle /\ HeapIdle /\ RatioIdle

nonDispatch == <<peakLocals, steps, findLocals, fftLocals, spectrumLocals,
                 fwhmLocals, heapVars, ratioLocals>>

\* lines 67-87
Normalize ==
    /\ fn = "normalize" /\ pc = "normalize"
    /\ LET out == normalize(y, args.parameter)
       IN  /\ err' = out.raised
           /\ result' = out.value
           /\ pc' = IF out.raised = "" THEN "done" ELSE "raised"
    /\ UNCHANGED <<io, warned, dispatchLocals, nonDispatch>>

\* lines 410-438
Windowing ==
    /\ fn = "windowing" /\ pc = "windowing"
    /\ LET out == windowing(y, args.method)
       IN  /\ err' = out.raised
           /\ result' = out.value
           /\ pc' = IF out.raised = "" THEN "done" ELSE "raised"
    /\ UNCHANGED <<io, warned, dispatchLocals, nonDispatch>>

\* lines 337-361
SelectInterpolator ==
    /\ fn = "interpolate" /\ pc = "select"
    /\ LET method == args.method
           all(interpolant) == [j \in DOMAIN xnew |-> Evaluated(interpolant, xnew[j])]
       IN  CASE method = "linear" ->
                  /\ ynew' = [j \in DOMAIN xnew |->
                                 np_interp(xnew[j], x, y, args.fill_value)]
                  /\ UNCHANGED <<interpolator_extrap, err>>
                  /\ pc' = "extrapolator"
             [] method = "spline" ->
                  /\ ynew' = all("splev")
                  /\ UNCHANGED <<interpolator_extrap, err>>
                  /\ pc' = "extrapolator"
             [] method = "quadratic" ->
                  /\ ynew' = all("polyval")
                  /\ UNCHANGED <<interpolator_extrap, err>>
                  /\ pc' = "extrapolator"
             [] method = "cubic" ->
                  /\ interpolator_extrap' = "Akima1DInterpolator"
                  /\ UNCHANGED <<ynew, err>>
                  /\ pc' = "extrapolator"
             [] method = "barycentric" ->
                  /\ ynew' = all("BarycentricInterpolator")
                  /\ UNCHANGED <<interpolator_extrap, err>>
                  /\ pc' = "extrapolator"
             [] method = "pchip" ->
                  /\ interpolator_extrap' = "PchipInterpolator"
                  /\ UNCHANGED <<ynew, err>>
                  /\ pc' = "extrapolator"
             [] OTHER ->
                  /\ err' = "ValueError: Invalid interpolation method"
                  /\ UNCHANGED <<ynew, interpolator_extrap>>
                  /\ pc' = "raised"
    /\ UNCHANGED <<io, warned, result, xnew, nonDispatch>>

\* lines 362-363
Extrapolating ==
    /\ fn = "interpolate" /\ pc = "extrapolator"
    /\ IF interpolator_extrap # "None"
       THEN /\ ynew' = [j \in DOMAIN xnew |->
                          Extrapolator(interpolator_extrap, xnew[j], x,
                                       args.fill_value = None)]
            /\ pc' = IF args.fill_value # None THEN "fill" ELSE "return"
       ELSE /\ ynew' = ynew
            /\ pc' = "return"
    /\ UNCHANGED <<io, err, warned, result, xnew, interpolator_extrap, nonDispatch>>

\* lines 365-366
FillOutside ==
    /\ fn = "interpolate" /\ pc = "fill"
    /\ ynew' = [j \in DOMAIN ynew |->
                  IF Below(xnew[j], x) \/ Above(xnew[j], x)
                  THEN Filled(args.fill_value, xnew[j])
                  ELSE ynew[j]]
    /\ pc' = "return"
    /\ UNCHANGED <<io, err, warned, result, xnew, interpolator_extrap, nonDispatch>>

\* line 367
ReturnInterpolated ==
    /\ fn = "interpolate" /\ pc = "return"
    /\ result' = ynew
    /\ pc' = "done"
    /\ UNCHANGED <<io, err, warned, dispatchLocals, nonDispatch>>

NextDispatch ==
    \/ Normalize
    \/ Windowing
    \/ SelectInterpolator
    \/ Extrapolating
    \/ FillOutside
    \/ ReturnInterpolated

SpecDispatch == InitDispatch /\ [][NextDispatch]_vars

\* the names each routine supports, and the name its call was given
Supported ==
    [normalize |-> {"maximum", "amplitude", "area", "energy", "rms"},
     interpolate |-> {"linear", "spline", "quadratic", "cubic", "barycentric",
                      "pchip"},
     windowing |-> {"barthann", "bartlett", "blackman", "blackman-harris",
                    "bohman", "boxcar", "cosine", "exponential", "flat-top",
                    "hamming", "hanning", "lanczos", "nuttall", "parzen",
                    "rectangular", "taylor", "tukey", "kaiser", "gaussian"}]

GivenName == IF fn = "normalize" THEN args.parameter ELSE args.method

InvalidParameterError ==
    [normalize |-> "RuntimeError: Unsupported parameter",
     interpolate |-> "ValueError: Invalid interpolation method",
     windowing |-> "ValueError: Invalid window type"]

\* C14: normalize, interpolate and windowing raise their invalid-parameter
\* error for exactly the names outside their supported set, and raise it
\* before any result is produced
C14_UnknownNameRejected ==
    (fn \in DOMAIN Supported /\ pc \in {"done", "raised"}) =>
        /\ (err = InvalidParameterError[fn]) <=> (GivenName \notin Supported[fn])
        /\ (GivenName \notin Supported[fn]) =>
              (pc = "raised" /\ result = <<>> /\ ynew = <<>>)

C14_Witness ==
    /\ fn = "windowing" /\ pc = "raised" /\ args.method = "hann"
    /\ err = "ValueError: Invalid window type"

\* the methods whose result interpolate overwrites outside the data
Filling == {"linear", "cubic", "pchip"}

OutOfRange(xq) == xq < x[0] \/ xq > x[Size(x) - 1]

\* C16: with a fill_value, interpolate returns it at every point of xnew
\* outside [x[0], x[-1]] for linear, cubic and pchip, returns the method's
\* own extrapolation there for quadratic, spline and barycentric, and never
\* replaces a point inside the range
C16_FillOnlyOutside ==
    (fn = "interpolate" /\ pc = "done" /\ args.fill_value # None) =>
        \A j \in DOMAIN xnew :
            /\ (OutOfRange(xnew[j]) /\ args.method \in Filling) =>
                  result[j] = Filled(args.fill_value, xnew[j])
            /\ (OutOfRange(xnew[j]) /\ args.method \notin Filling) =>
                  result[j].from \in {"splev", "polyval", "BarycentricInterpolator"}
            /\ ~OutOfRange(xnew[j]) => result[j].from \notin {"fill_value", "nan"}

C16_Witness ==
    /\ fn = "interpolate" /\ pc = "done" /\ args.fill_value # None
    /\ args.method = "pchip"
    /\ \E i, j \in DOMAIN xnew :
          /\ xnew[i] > x[Size(x) - 1] /\ result[i].from = "fill_value"
          /\ xnew[j] = x[Size(x) - 1] /\ result[j].from = "PchipInterpolator"

\* ------------------------------------------------------------------
\* xpeak (lines 299-312) and fwhm (lines 702-758)
MaxFwhm == 4

\* line 310: peak_indexes(y) with its defaults thres=0.3, min_dist=1 and
\* thres_abs=False on a signed array; min_dist=1 skips the pruning
peak_indexes(ys) ==
    LET d == np_diff(ys)
    IN  IF TotallyFlat(ys, d) THEN <<>>
        ELSE Candidates(ys, ResolvePlateaus(d), RelativeThreshold(3, ys))

\* np.average(x, weights=y): sum(x * y) / sum(y); it refuses weights
\* that sum to zero
np_average(xs, ws) ==
    IF np_sum(ws) = 0
    THEN [raised |-> "ZeroDivisionError: Weights sum to zero, can't be normalized",
          value |-> <<>>]
    ELSE [raised |-> "",
          value |-> Frac(np_sum([i \in DOMAIN xs |-> xs[i] * ws[i]]), np_sum(ws))]

\* lines 311-312
PeakAbscissa(xs, ys, ps) ==
    IF Len(ps) = 1 THEN [raised |-> "", value |-> Q(xs[ps[1]])]
    ELSE np_average(xs, ys)

\* lines 310-312
xpeak(xs, ys) == PeakAbscissa(xs, ys, peak_indexes(ys))

\* a[indexes]
Take(a, indexes) == [i \in 0..(Len(indexes) - 1) |-> a[indexes[i + 1]]]

\* isinstance(bound, float): None and int bounds are left alone
IsFloat(bound) == bound # None /\ bound[1] = "float"

\* lines 726-729
ClipBelow(xs, bound) ==
    IF IsFloat(bound) THEN Ascending({i \in DOMAIN xs : xs[i] >= bound[2]})
    ELSE Ascending(DOMAIN xs)

\* lines 730-733
ClipAbove(xs, bound) ==
    IF IsFloat(bound) THEN Ascending({i \in DOMAIN xs : xs[i] <= bound[2]})
    ELSE Ascending(DOMAIN xs)

\* line 724: dy = np.max(y) - np.min(y), of the data as given
DataSpan(d) == np_max(d[2]) - np_min(d[2])

\* line 736, doubled: 2 * (dy * 0.5 + np.min(y))
TwiceHalfMax(d, ys) == DataSpan(d) + 2 * np_min(ys)

\* lines 466-477 with the level twice / 2; the ordinates are doubled
\* before the level is taken off, which leaves the intercepts unchanged
find_x_at_value(xs, ys, twice) ==
    LET ly == [i \in DOMAIN ys |-> 2 * ys[i] - twice]
        xi == find_nearest_zero_point_idx(ly)
    IN  IF Len(xi) = 0 THEN <<Q(0)>> ELSE Interpolate(xs, ly, xi)

\* lines 743-747: the keys of the table of fit models
FitModels == {"gauss", "lorentz", "voigt"}

FwhmMethods == {"zero-crossing", "gauss", "lorentz", "voigt", "gaussian"}

\* xmin and xmax: None, or a number with its Python type
LowerBounds == {None, <<"float", 1>>, <<"int", 1>>, <<"float", 9>>}

UpperBounds == {None, <<"float", 2>>}

InitFwhm ==
    /\ \/ /\ fn = "xpeak"
          /\ args = <<>>
          /\ \E n \in 1..MaxFwhm :
                /\ x = UniformArray(n, 1)
                /\ y \in ArraysOver(Amplitudes, n)
          /\ data = <<>>
          /\ pc = "peaks"
       \/ /\ fn = "fwhm"
          /\ args \in [method : FwhmMethods, xmin : LowerBounds, xmax : UpperBounds]
          /\ \E n \in 0..MaxFwhm :
                data \in {<<UniformArray(n, 1), ys>> : ys \in ArraysOver(Amplitudes, n)}
          /\ x = <<>>
          /\ y = <<>>
          /\ pc = "seed"
    /\ err = ""
    /\ warned = FALSE
    /\ result = <<>>
    /\ mu = <<>> /\ hmax = <<>> /\ fx_found = <<>>
    /\ PeakIdle /\ SamplingIdle /\ FindIdle /\ FftIdle
    /\ SpectrumIdle /\ DispatchIdle /\ HeapIdle /\ RatioIdle

nonFwhm == <<thres, dy, highest, rem, k, steps, findLocals, fftLocals,
             spectrumLocals, dispatchLocals, heapVars, ratioLocals>>

\* line 310
PeakSearch ==
    /\ fn = "xpeak" /\ pc = "peaks"
    /\ peaks' = peak_indexes(y)
    /\ pc' = "position"
    /\ UNCHANGED <<io, err, warned, result, fwhmLocals, nonFwhm>>

\* lines 311-312
PeakPosition ==
    /\ fn = "xpeak" /\ pc = "position"
    /\ LET out == PeakAbscissa(x, y, peaks)
       IN  /\ err' = out.raised
           /\ result' = out.value
           /\ pc' = IF out.raised = "" THEN "done" ELSE "raised"
    /\ UNCHANGED <<io, warned, peaks, fwhmLocals, nonFwhm>>

\* lines 723-725: the reductions of line 724 need a sample; xpeak runs
\* whatever the method is
Seed ==
    /\ fn = "fwhm" /\ pc = "seed"
    /\ x' = data[1]
    /\ y' = data[2]
    /\ IF Size(data[1]) = 0
       THEN /\ err' = "ValueError: zero-size array to reduction operation maximum"
            /\ pc' = "raised"
            /\ mu' = mu
       ELSE LET out == xpeak(data[1], data[2])
            IN  /\ err' = out.raised
                /\ mu' = out.value
                /\ pc' = IF out.raised = "" THEN "clip" ELSE "raised"
    /\ UNCHANGED <<fn, args, warned, result, peaks, data, hmax, fx_found, nonFwhm>>

\* lines 726-733
Clip ==
    /\ fn = "fwhm" /\ pc = "clip"
    /\ LET lower == ClipBelow(x, args.xmin)
           upper == ClipAbove(Take(x, lower), args.xmax)
       IN  /\ x' = Take(Take(x, lower), upper)
           /\ y' = Take(Take(y, lower), upper)
    /\ pc' = "method"
    /\ UNCHANGED <<fn, args, err, warned, result, peaks, fwhmLocals, nonFwhm>>

\* lines 735-737: np.min needs a sample left after the clipping
HalfLevel ==
    /\ fn = "fwhm" /\ pc = "method"
    /\ IF args.method # "zero-crossing"
       THEN /\ pc' = "lookup"
            /\ UNCHANGED <<err, hmax, fx_found>>
       ELSE IF Size(y) = 0
       THEN /\ err' = "ValueError: zero-size array to reduction operation minimum"
            /\ pc' = "raised"
            /\ UNCHANGED <<hmax, fx_found>>
       ELSE /\ hmax' = Frac(TwiceHalfMax(data, y), 2)
            /\ fx_found' = find_x_at_value(x, y, TwiceHalfMax(data, y))
            /\ pc' = "warn"
            /\ err' = err
    /\ UNCHANGED <<io, warned, result, peaks, data, mu, nonFwhm>>

\* lines 738-740
Report ==
    /\ fn = "fwhm" /\ pc = "warn"
    /\ warned' = (Len(fx_found) # 2)
    /\ result' = <<fx_found[1], hmax, fx_found[Len(fx_found)], hmax>>
    /\ pc' = "done"
    /\ UNCHANGED <<io, err, peaks, fwhmLocals, nonFwhm>>

\* lines 742-749
Lookup ==
    /\ fn = "fwhm" /\ pc = "lookup"
    /\ IF args.method \in FitModels
       THEN pc' = "fit" /\ err' = err
       ELSE pc' = "raised" /\ err' = "ValueError: Invalid method"
    /\ UNCHANGED <<io, warned, result, peaks, fwhmLocals, nonFwhm>>

\* lines 751-758: the segment of the fitted model, kept as a term
Fit ==
    /\ fn = "fwhm" /\ pc = "fit"
    /\ result' = <<"half_max_segment", args.method, mu>>
    /\ pc' = "done"
    /\ UNCHANGED <<io, err, warned, peaks, fwhmLocals, nonFwhm>>

NextFwhm ==
    \/ PeakSearch
    \/ PeakPosition
    \/ Seed
    \/ Clip
    \/ HalfLevel
    \/ Report
    \/ Lookup
    \/ Fit

SpecFwhm == InitFwhm /\ [][NextFwhm]_vars

FwhmOver == fn = "fwhm" /\ pc \in {"done", "raised"}

\* C15: fwhm with a method outside zero-crossing, gauss, lorentz and voigt
\* fails with ValueError 'Invalid method' for every data input, before the
\* peak localisation or the clipping has run
C15_InvalidMethodFirst ==
    (FwhmOver /\ args.method \notin {"zero-crossing", "gauss", "lorentz", "voigt"}) =>
        /\ pc = "raised"
        /\ err = "ValueError: Invalid method"
        /\ ~warned
        /\ mu = <<>>

\* the brackets of the half-maximum level in the clipped data
HalfMaxCrossings ==
    find_nearest_zero_point_idx([i \in DOMAIN y |-> 2 * y[i] - TwiceHalfMax(data, y)])

\* C17: fwhm with method zero-crossing always returns the segment
\* (first crossing, hmax, last crossing, hmax), and warns exactly when the
\* number of crossings found is not 2
C17_WarnsUnlessTwoCrossings ==
    (FwhmOver /\ args.method = "zero-crossing") =>
        /\ pc = "done"
        /\ warned <=> (Len(HalfMaxCrossings) # 2)
        /\ result = <<fx_found[1], hmax, fx_found[Len(fx_found)], hmax>>

\* the amplitude-weighted average of x
WeightedAverage ==
    Frac(np_sum([i \in DOMAIN x |-> x[i] * y[i]]), np_sum(y))

\* C18: xpeak returns a value for every signal: x at the peak when there
\* is exactly one peak, the amplitude-weighted average of x otherwise
C18_XpeakAlwaysReturns ==
    (fn = "xpeak" /\ pc \in {"done", "raised"}) =>
        /\ pc = "done"
        /\ result = IF Len(peaks) = 1 THEN Q(x[peaks[1]]) ELSE WeightedAverage

\* ------------------------------------------------------------------
\* The arrays as objects.  heap is the sequence of the ndarray objects
\* alive during a call: the caller's x, y and xnew come first, and every
\* expression that builds an array adds one.  env gives the object that
\* each name of the routine is bound to (0 when unbound).  A routine is
\* the sequence of its statements that touch arrays, each one either
\* binding a name to a new object or writing into the object a name is
\* bound to; the statement is identified by its source line.  prog holds
\* the statements of the call in progress.
MaxFrame == 3

CallerX == 1

CallerY == CallerX + 1

CallerXnew == CallerY + 1

Locals ==
    {"x", "y", "yin", "xnew", "dy", "ytemp", "out", "x1", "y1", "peaks",
     "highest", "rem", "ynew", "leveled_y", "xi_before", "x0", "indexes", "mu"}

Stmt(kind, name, rhs) == [kind |-> kind, name |-> name, rhs |-> rhs]

\* the object a name is bound to
V(name) == heap[env[name]]

\* an assignment that binds the name to the object it was given
SameObject(h, id) == <<h, id>>

\* line 75: np.array(yin, copy=True), a new object with the same values
CopyOf(h, id) == <<Append(h, h[id]), Len(h) + 1>>

\* lines 48-51
DerivativeProgram ==
    <<Stmt("new", "dy", "48: np.zeros_like(y)"),
      Stmt("store", "dy", "49: dy[0:-1] = np.diff(y) / np.diff(x)"),
      Stmt("store", "dy", "50: dy[-1] = (y[-1] - y[-2]) / (x[-1] - x[-2])"),
      Stmt("return", "dy", "51")>>

\* lines 67-87
NormalizeProgram(parameter) ==
    CASE parameter = "amplitude" ->
            <<Stmt("copy", "ytemp", "yin"),
              Stmt("store", "ytemp", "79: ytemp -= minimum"),
              Stmt("new", "out", "80: normalize(ytemp, parameter='maximum')"),
              Stmt("return", "out", "80")>>
      [] parameter \in {"maximum", "area", "energy", "rms"} ->
            <<Stmt("new", "out", "73-86: yin / ..."),
              Stmt("return", "out", "73-86")>>
      [] OTHER ->
            <<Stmt("raise", "", "RuntimeError: Unsupported parameter")>>

\* lines 103-108
Fft1dProgram ==
    <<Stmt("new", "y1", "103: np.fft.fft(y)"),
      Stmt("new", "x1", "104: np.fft.fftfreq(x.size, d=x[1] - x[0])"),
      Stmt("new", "x1", "106: np.fft.fftshift(x1)"),
      Stmt("new", "y1", "107: np.fft.fftshift(y1)"),
      Stmt("return", "y1", "108")>>

\* lines 124-130, shift left at its default
Ifft1dProgram ==
    <<Stmt("new", "y", "125: np.fft.ifftshift(y)"),
      Stmt("new", "y1", "126: np.fft.ifft(y)"),
      Stmt("new", "x1", "129: np.arange(y1.size) * dt"),
      Stmt("new", "out", "130: y1.real"),
      Stmt("return", "out", "130")>>

\* lines 239-294: the statements peak_indexes runs on the signal ys
PeakProgram(ys, md) ==
    <<Stmt("new", "dy", "239: np.diff(y)")>> \o
    (IF TotallyFlat(ys, np_diff(ys))
     THEN <<Stmt("new", "peaks", "247: np.array([])")>>
     ELSE (IF Len(Zeros(np_diff(ys))) > 0
           THEN <<Stmt("store", "dy", "258-273: dy[plateau] = ...")>>
           ELSE <<>>) \o
          <<Stmt("new", "peaks", "276: np.where(...)[0]")>> \o
          (IF NeedsPruning(peak_indexes(ys), md)
           THEN <<Stmt("new", "highest", "284: peaks[np.argsort(y[peaks])][::-1]"),
                  Stmt("new", "rem", "285: np.ones(y.size, dtype=bool)"),
                  Stmt("store", "rem", "286: rem[peaks] = False"),
                  Stmt("store", "rem", "288-292: rem[sl] = True; rem[peak] = False"),
                  Stmt("new", "peaks", "294: np.arange(y.size)[~rem]")>>
           ELSE <<>>))

\* lines 310-312, the position left in the name target
XpeakProgram(xs, ys, target) ==
    PeakProgram(ys, 1) \o
    (IF Len(peak_indexes(ys)) = 1
     THEN <<Stmt("new", target, "311: x[peaks[0]]")>>
     ELSE IF np_average(xs, ys).raised # ""
     THEN <<Stmt("raise", "", np_average(xs, ys).raised)>>
     ELSE <<Stmt("new", target, "312: np.average(x, weights=y)")>>)

\* lines 337-367
InterpolateProgram(method, fill_value) ==
    CASE method \in {"linear", "spline", "quadratic", "barycentric"} ->
            <<Stmt("new", "ynew", "340-355: ynew = ..."),
              Stmt("return", "ynew", "367")>>
      [] method \in {"cubic", "pchip"} ->
            <<Stmt("new", "ynew", "363: interpolator_extrap(xnew, extrapolate=...)")>> \o
            (IF fill_value # None
             THEN <<Stmt("store", "ynew", "365: ynew[xnew < x[0]] = fill_value"),
                    Stmt("store", "ynew", "366: ynew[xnew > x[-1]] = fill_value")>>
             ELSE <<>>) \o
            <<Stmt("return", "ynew", "367")>>
      [] OTHER ->
            <<Stmt("raise", "", "ValueError: Invalid interpolation method")>>

\* lines 410-438
WindowingProgram(method) ==
    IF windowing(<<>>, method).raised = ""
    THEN <<Stmt("new", "out", "429-437: y * window"),
           Stmt("return", "out", "429-437")>>
    ELSE <<Stmt("raise", "", "ValueError: Invalid window type")>>

\* lines 466-477, for a level given doubled
FindProgram(ys, twice) ==
    <<Stmt("new", "leveled_y", "466: y - value"),
      Stmt("new", "xi_before", "467: find_nearest_zero_point_idx(leveled_y)")>> \o
    (IF Len(find_nearest_zero_point_idx([i \in DOMAIN ys |-> 2 * ys[i] - twice])) = 0
     THEN <<Stmt("new", "x0", "471: np.array([0.0])")>>
     ELSE <<Stmt("new", "x0", "474-477: -ori / p")>>)

\* the ordinates fwhm is left with after lines 726-733
Clipped(xs, ys, a) ==
    LET lower == ClipBelow(xs, a.xmin)
    IN  Take(Take(ys, lower), ClipAbove(Take(xs, lower), a.xmax))

\* lines 723-758
FwhmProgram(xs, ys, a) ==
    XpeakProgram(xs, ys, "mu") \o
    (IF IsFloat(a.xmin)
     THEN <<Stmt("new", "indexes", "727: np.where(x >= xmin)[0]"),
            Stmt("new", "x", "728: x[indexes]"),
            Stmt("new", "y", "729: y[indexes]")>>
     ELSE <<>>) \o
    (IF IsFloat(a.xmax)
     THEN <<Stmt("new", "indexes", "731: np.where(x <= xmax)[0]"),
            Stmt("new", "x", "732: x[indexes]"),
            Stmt("new", "y", "733: y[indexes]")>>
     ELSE <<>>) \o
    (IF a.method = "zero-crossing"
     THEN (IF Size(Clipped(xs, ys, a)) = 0
           THEN <<Stmt("raise", "",
                       "ValueError: zero-size array to reduction operation minimum")>>
           ELSE FindProgram(Clipped(xs, ys, a),
                            TwiceHalfMax(<<xs, ys>>, Clipped(xs, ys, a))) \o
                <<Stmt("return", "x0", "740")>>)
     ELSE IF a.method \in FitModels
     THEN <<Stmt("new", "out", "758: FitModelClass.half_max_segment(...)"),
            Stmt("return", "out", "758")>>
     ELSE <<Stmt("raise", "", "ValueError: Invalid method")>>)

\* lines 773-785
Fw1e2Program(xs, ys) ==
    XpeakProgram(xs, ys, "mu") \o
    <<Stmt("new", "out", "785: mu - hw, yhm, mu + hw, yhm"),
      Stmt("return", "out", "785")>>

\* the statements a call runs, given its arguments
Program ==
    CASE fn = "derivative" -> DerivativeProgram
      [] fn = "normalize" -> NormalizeProgram(args.parameter)
      [] fn = "fft1d" -> Fft1dProgram
      [] fn = "ifft1d" -> Ifft1dProgram
      [] fn = "peak_indexes" ->
            PeakProgram(y, args.min_dist) \o <<Stmt("return", "peaks", "296")>>
      [] fn = "xpeak" -> XpeakProgram(x, y, "out") \o <<Stmt("return", "out", "312")>>
      [] fn = "interpolate" -> InterpolateProgram(args.method, args.fill_value)
      [] fn = "windowing" -> WindowingProgram(args.method)
      [] fn = "find_x_at_value" ->
            FindProgram(y, 2 * args.value) \o <<Stmt("return", "x0", "477")>>
      [] fn = "fwhm" -> FwhmProgram(x, y, args)
      [] fn = "fw1e2" -> Fw1e2Program(x, y)

\* lines 288-292, over the whole of highest
RECURSIVE Pruned(_, _, _)
Pruned(r, hs, md) ==
    IF hs = <<>> THEN r
    ELSE Pruned(IF StillActive(r, Head(hs)) THEN Exclude(r, Head(hs), md) ELSE r,
                Tail(hs), md)

\* the level of find_x_at_value doubled: 2 * value, or 2 * hmax in fwhm
TwiceLevel ==
    IF fn = "fwhm" THEN TwiceHalfMax(<<x, y>>, V("y")) ELSE 2 * args.value

\* the values the right-hand side of a statement may have; an expression
\* whose value no later statement of the model reads is kept as a term
Eval(rhs) ==
    LET n == Size(V("y"))
    IN  CASE rhs = "48: np.zeros_like(y)" -> {[i \in DOMAIN V("y") |-> Q(0)]}
          [] rhs = "49: dy[0:-1] = np.diff(y) / np.diff(x)" ->
                {[i \in DOMAIN V("dy") |->
                    IF i < n - 1
                    THEN Frac(V("y")[i + 1] - V("y")[i], V("x")[i + 1] - V("x")[i])
                    ELSE V("dy")[i]]}
          [] rhs = "50: dy[-1] = (y[-1] - y[-2]) / (x[-1] - x[-2])" ->
                {[V("dy") EXCEPT ![n - 1] =
                    Frac(V("y")[n - 1] - V("y")[n - 2], V("x")[n - 1] - V("x")[n - 2])]}
          [] rhs = "79: ytemp -= minimum" ->
                {[i \in DOMAIN V("ytemp") |-> V("ytemp")[i] - np_min(V("yin"))]}
          [] rhs = "80: normalize(ytemp, parameter='maximum')" ->
                {NormalizeMaximum(V("ytemp"))}
          [] rhs = "73-86: yin / ..." -> {normalize(V("yin"), args.parameter).value}
          [] rhs = "103: np.fft.fft(y)" -> {np_fft(V("y"))}
          [] rhs = "104: np.fft.fftfreq(x.size, d=x[1] - x[0])" ->
                {np_fftfreq(Size(V("x")), V("x")[1] - V("x")[0])}
          [] rhs = "106: np.fft.fftshift(x1)" -> {np_fftshift(V("x1"))}
          [] rhs = "107: np.fft.fftshift(y1)" -> {np_fftshift(V("y1"))}
          [] rhs = "125: np.fft.ifftshift(y)" -> {np_ifftshift(V("y"))}
          [] rhs = "239: np.diff(y)" -> {np_diff(V("y"))}
          [] rhs = "247: np.array([])" -> {<<>>}
          [] rhs = "258-273: dy[plateau] = ..." -> {ResolvePlateaus(V("dy"))}
          [] rhs = "276: np.where(...)[0]" ->
                {Candidates(V("y"), V("dy"), RelativeThreshold(3, V("y")))}
          [] rhs = "284: peaks[np.argsort(y[peaks])][::-1]" ->
                DescendingOrders(V("y"), V("peaks"))
          [] rhs = "285: np.ones(y.size, dtype=bool)" -> {[i \in DOMAIN V("y") |-> TRUE]}
          [] rhs = "286: rem[peaks] = False" ->
                {[i \in DOMAIN V("rem") |->
                    IF i \in Elems(V("peaks")) THEN FALSE ELSE V("rem")[i]]}
          [] rhs = "288-292: rem[sl] = True; rem[peak] = False" ->
                {Pruned(V("rem"), V("highest"), args.min_dist)}
          [] rhs = "294: np.arange(y.size)[~rem]" -> {Remaining(V("rem"))}
          [] rhs = "311: x[peaks[0]]" -> {Q(V("x")[V("peaks")[1]])}
          [] rhs = "312: np.average(x, weights=y)" -> {np_average(V("x"), V("y")).value}
          [] rhs = "340-355: ynew = ..." ->
                {[j \in DOMAIN V("xnew") |->
                    IF args.method = "linear"
                    THEN np_interp(V("xnew")[j], V("x"), V("y"), args.fill_value)
                    ELSE Evaluated(args.method, V("xnew")[j])]}
          [] rhs = "363: interpolator_extrap(xnew, extrapolate=...)" ->
                {[j \in DOMAIN V("xnew") |->
                    Extrapolator(args.method, V("xnew")[j], V("x"),
                                 args.fill_value = None)]}
          [] rhs = "365: ynew[xnew < x[0]] = fill_value" ->
                {[j \in DOMAIN V("ynew") |->
                    IF Below(V("xnew")[j], V("x"))
                    THEN Filled(args.fill_value, V("xnew")[j]) ELSE V("ynew")[j]]}
          [] rhs = "366: ynew[xnew > x[-1]] = fill_value" ->
                {[j \in DOMAIN V("ynew") |->
                    IF Above(V("xnew")[j], V("x"))
                    THEN Filled(args.fill_value, V("xnew")[j]) ELSE V("ynew")[j]]}
          [] rhs = "429-437: y * window" -> {windowing(V("y"), args.method).value}
          [] rhs = "466: y - value" ->
                {[i \in DOMAIN V("y") |-> 2 * V("y")[i] - TwiceLevel]}
          [] rhs = "467: find_nearest_zero_point_idx(leveled_y)" ->
                {find_nearest_zero_point_idx(V("leveled_y"))}
          [] rhs = "471: np.array([0.0])" -> {<<Q(0)>>}
          [] rhs = "474-477: -ori / p" ->
                {Interpolate(V("x"), V("leveled_y"), V("xi_before"))}
          [] rhs = "727: np.where(x >= xmin)[0]" -> {ClipBelow(V("x"), args.xmin)}
          [] rhs = "731: np.where(x <= xmax)[0]" -> {ClipAbove(V("x"), args.xmax)}
          [] rhs \in {"728: x[indexes]", "732: x[indexes]"} ->
                {Take(V("x"), V("indexes"))}
          [] rhs \in {"729: y[indexes]", "733: y[indexes]"} ->
                {Take(V("y"), V("indexes"))}
          [] OTHER -> {<<rhs>>}

\* the names of a routine's parameters, bound to the caller's objects
Parameters ==
    [n \in Locals |->
        CASE n = "x" -> CallerX
          [] n = "y" /\ fn # "normalize" -> CallerY
          [] n = "yin" /\ fn = "normalize" -> CallerY
          [] n = "xnew" -> CallerXnew
          [] OTHER -> 0]

FrameCall(name, a) ==
    /\ fn = name
    /\ args = a

InitFrame ==
    /\ \/ /\ \/ FrameCall("derivative", <<>>)
             \/ \E p \in NormalizeNames : FrameCall("normalize", [parameter |-> p])
             \/ FrameCall("fft1d", <<>>)
             \/ FrameCall("ifft1d", <<>>)
             \/ \E md \in {1, 2} : FrameCall("peak_indexes", [min_dist |-> md])
             \/ FrameCall("xpeak", <<>>)
             \/ \E w \in {"hamming", "tukey", "hann"} :
                   FrameCall("windowing", [method |-> w])
             \/ \E v \in FindValues : FrameCall("find_x_at_value", [value |-> v])
             \/ \E a \in [method : FwhmMethods, xmin : {None, <<"float", 1>>},
                          xmax : UpperBounds] : FrameCall("fwhm", a)
             \/ FrameCall("fw1e2", <<>>)
          /\ \/ \E n \in 2..MaxFrame :
                   /\ x = UniformArray(n, 1)
                   /\ y \in ArraysOver(Amplitudes, n)
             \/ /\ x = UniformArray(Size(ThreeSpikes), 1)
                /\ y = ThreeSpikes
          /\ xnew = <<>>
       \/ /\ \E w \in InterpolateNames, fv \in {None, <<-1>>} :
                FrameCall("interpolate", [method |-> w, fill_value |-> fv])
          /\ x = UniformArray(4, 1)
          /\ y \in {UniformArray(4, d) : d \in {0, 1}}
          /\ \E n \in 1..MaxQueries : xnew \in ArraysOver(QueryPoints, n)
    /\ heap = <<x, y, xnew>>
    /\ env = Parameters
    /\ prog = Program
    /\ pc = "call"
    /\ k = 1
    /\ err = ""
    /\ warned = FALSE
    /\ result = <<>>
    /\ thres = 0 /\ dy = <<>> /\ peaks = <<>> /\ highest = <<>> /\ rem = <<>>
    /\ ynew = <<>> /\ interpolator_extrap = "None"
    /\ SamplingIdle /\ FindIdle /\ FftIdle /\ SpectrumIdle /\ FwhmIdle
    /\ RatioIdle

nonFrame == <<thres, dy, peaks, highest, rem, steps, findLocals, fftLocals,
              spectrumLocals, ynew, interpolator_extrap, fwhmLocals, xnew, ratioLocals>>

Running(kind) == pc = "call" /\ k <= Len(prog) /\ prog[k].kind = kind

\* name = expression: the expression builds a new object
New ==
    /\ Running("new")
    /\ \E v \in Eval(prog[k].rhs) :
          /\ heap' = Append(heap, v)
          /\ env' = [env EXCEPT ![prog[k].name] = Len(heap) + 1]
    /\ k' = k + 1
    /\ UNCHANGED <<io, pc, err, warned, result, prog, nonFrame>>

\* line 75
Copy ==
    /\ Running("copy")
    /\ LET made == CopyOf(heap, env[prog[k].rhs])
       IN  /\ heap' = made[1]
           /\ env' = [env EXCEPT ![prog[k].name] = made[2]]
    /\ k' = k + 1
    /\ UNCHANGED <<io, pc, err, warned, result, prog, nonFrame>>

\* name[...] = value and name -= value: the object of the name is written
Store ==
    /\ Running("store")
    /\ \E v \in Eval(prog[k].rhs) :
          heap' = [heap EXCEPT ![env[prog[k].name]] = v]
    /\ k' = k + 1
    /\ UNCHANGED <<io, pc, err, warned, result, env, prog, nonFrame>>

Return ==
    /\ Running("return")
    /\ result' = V(prog[k].name)
    /\ pc' = "done"
    /\ UNCHANGED <<io, err, warned, k, heapVars, nonFrame>>

Raise ==
    /\ Running("raise")
    /\ err' = prog[k].rhs
    /\ pc' = "raised"
    /\ UNCHANGED <<io, warned, result, k, heapVars, nonFrame>>

NextFrame ==
    \/ New
    \/ Copy
    \/ Store
    \/ Return
    \/ Raise

SpecFrame == InitFrame /\ [][NextFrame]_vars

\* C19: when a call has returned or raised, the caller's x, y and xnew
\* arrays hold the values they had when the call was made
C19_InputsUntouched ==
    (heap # <<>> /\ pc \in {"done", "raised"}) =>
        /\ heap[CallerX] = x
        /\ heap[CallerY] = y
        /\ heap[CallerXnew] = xnew

C19_Witness ==
    /\ fn = "normalize" /\ args.parameter = "amplitude" /\ pc = "done"
    /\ env["ytemp"] > CallerXnew
    /\ heap[env["ytemp"]] # y
    /\ heap[CallerY] = y

(***************************************************************************)
(* Plateaus and edges in peak_indexes                                      *)
(***************************************************************************)
\* the first differences have been resolved: lines 249-273 have run
PlateausResolved ==
    /\ fn = "peak_indexes"
    /\ pc \in {"find", "sort", "prune", "done"}
    /\ ~TotallyFlat(y, np_diff(y))

\* peaks holds the candidates of lines 276-280, before any pruning
PeaksSearched ==
    /\ PlateausResolved
    /\ \/ pc \in {"sort", "prune"}
       \/ pc = "done" /\ args.min_dist = 1

\* lo..hi is a maximal run of zeros of d
MaximalZeroRun(d, lo, hi) ==
    /\ lo <= hi
    /\ \A j \in lo..hi : d[j] = 0
    /\ (lo - 1) \in DOMAIN d => d[lo - 1] # 0
    /\ (hi + 1) \in DOMAIN d => d[hi + 1] # 0

\* the slope the claim gives to index i of the maximal zero run lo..hi
SlopeGiven(d, lo, hi, i) ==
    IF lo = 0 THEN d[hi + 1]
    ELSE IF hi = Size(d) - 1 THEN d[lo - 1]
    ELSE IF 2 * i < lo + hi THEN d[lo - 1]
    ELSE d[hi + 1]

\* the peaks found on the samples lo..hi+1 of a plateau
PeaksOn(lo, hi) == {p \in Elems(peaks) : lo <= p /\ p <= hi + 1}

C30_EndsNeverReturned ==
    PeakDone =>
        /\ 0 \notin Elems(result)
        /\ (Size(y) - 1) \notin Elems(result)

C30_Witness ==
    /\ PeakDone
    /\ Size(y) >= 4
    /\ \A i \in DOMAIN y : i # 0 => y[0] > y[i]
    /\ y[Size(y) - 1] = y[Size(y) - 2]
    /\ y[Size(y) - 2] > y[Size(y) - 3]
    /\ AboveThreshold(y[Size(y) - 1], thres)
    /\ Len(result) >= 1

(***************************************************************************)
(* Brackets and estimates of find_x_at_value                               *)
(***************************************************************************)
\* line 467 has run: xi_before holds the brackets of leveled_y
BracketsFound ==
    /\ fn \in {"find_x_at_value", "bandwidth"}
    /\ pc \in {"interpolate", "coords", "done"}

\* the two samples are on opposite sides of zero, or one of them is zero
StraddleOrTouch(a, i) == a[i] * a[i + 1] <= 0

\* C22: find_nearest_zero_point_idx(y) returns, in ascending order, exactly
\* the indices i in 0..len(y)-2 for which y[i] and y[i+1] straddle or touch
\* zero; no other index is returned and none of these is omitted
C22_BracketsExact ==
    BracketsFound =>
        /\ \A i, j \in 1..Len(xi_before) : i < j => xi_before[i] < xi_before[j]
        /\ Elems(xi_before) =
              {i \in 0..(Size(leveled_y) - 2) : StraddleOrTouch(leveled_y, i)}

C22_Witness ==
    /\ BracketsFound
    /\ Len(xi_before) >= 2
    /\ \E i \in Elems(xi_before) : leveled_y[i] < 0 /\ leveled_y[i + 1] > 0
    /\ \E i \in Elems(xi_before) : leveled_y[i] > 0 /\ leveled_y[i + 1] = 0
    /\ \E i \in 0..(Size(leveled_y) - 2) : i \notin Elems(xi_before)

\* the finite rational q lies in the closed interval from lo to hi
Within(q, lo, hi) == IsFinite(q) /\ lo * q[2] <= q[1] /\ q[1] <= hi * q[2]

\* C25: for strictly increasing x and every bracket index i that
\* find_x_at_value uses, the estimate returned is a finite number with
\* x[i] <= x0 <= x[i+1], also for a bracket whose two samples both equal the
\* searched value
C25_EstimateInsideBracket ==
    (fn = "find_x_at_value" /\ pc = "done" /\ Len(xi_before) > 0) =>
        /\ Len(result) = Len(xi_before)
        /\ \A j \in 1..Len(xi_before) :
              Within(result[j], x[xi_before[j]], x[xi_before[j] + 1])

\* the same, for the brackets that have a slope
C25_SlopedBracketsInside ==
    (fn = "find_x_at_value" /\ pc = "done" /\ Len(xi_before) > 0) =>
        \A j \in 1..Len(xi_before) :
            leveled_y[xi_before[j]] # leveled_y[xi_before[j] + 1] =>
                Within(result[j], x[xi_before[j]], x[xi_before[j] + 1])

(***************************************************************************)
(* The time axis of ifft1d                                                 *)
(***************************************************************************)
\* 0, d, 2d, ... for the sampling period d of x
OriginalAxis == [i \in DOMAIN x |-> Q(i * (x[1] - x[0]))]

\* C29: for a uniformly sampled signal of n >= 3 samples with step d, the
\* time axis returned by ifft1d applied to the output of fft1d is 0, d, 2d,
\* ..., both with shift=True on both sides and with shift=False on both sides
C29_TimeAxisRestored ==
    (/\ fn = "ifft1d(*fft1d)" /\ pc = "done"
     /\ args.shift = args.ishift
     /\ Size(y) >= 3) =>
        result[1] = OriginalAxis

\* the same, for shift=True on both sides
C29_ShiftedAxisRestored ==
    (/\ fn = "ifft1d(*fft1d)" /\ pc = "done"
     /\ args.shift /\ args.ishift
     /\ Size(y) >= 3) =>
        result[1] = OriginalAxis

\* with shift=False on both sides the time step is 1 / 0
C29_UnshiftedAxisInfinite ==
    (/\ fn = "ifft1d(*fft1d)" /\ pc = "done"
     /\ ~args.shift /\ ~args.ishift
     /\ Size(y) >= 3) =>
        /\ result[1][0] = NaN
        /\ \A i \in DOMAIN x : i > 0 => result[1][i] = <<1, 0>>

(***************************************************************************)
(* Bounds and half-maximum level of fwhm                                   *)
(***************************************************************************)
\* ys rises strictly to a single maximum and falls strictly back to the level
\* it started from
SinglePeak(ys) ==
    /\ Size(ys) >= 3
    /\ ys[0] = ys[Size(ys) - 1]
    /\ \E top \in 1..(Size(ys) - 2) :
          /\ \A i \in 0..(top - 1) : ys[i] < ys[i + 1]
          /\ \A i \in top..(Size(ys) - 2) : ys[i] > ys[i + 1]

\* fwhm has returned from its zero-crossing branch
CrossingsReported ==
    fn = "fwhm" /\ pc = "done" /\ args.method = "zero-crossing"

\* some sample of the data searched is exactly at the half-maximum level
SampleAtHalfMax == \E i \in DOMAIN y : Q(y[i]) = hmax

\* C26: for a signal that rises strictly to a single maximum and falls
\* strictly back to its starting level, fwhm with method zero-crossing finds
\* exactly two crossings of the half-maximum and emits no warning, also when
\* samples are exactly equal to the half-maximum
C26_TwoCrossingsOfSinglePeak ==
    (/\ CrossingsReported
     /\ args.xmin = None /\ args.xmax = None
     /\ SinglePeak(data[2])) =>
        Len(fx_found) = 2 /\ ~warned

\* the same, when no sample is at the half-maximum
C26_TwoCrossingsOffSamples ==
    (/\ CrossingsReported
     /\ args.xmin = None /\ args.xmax = None
     /\ SinglePeak(data[2])
     /\ ~SampleAtHalfMax) =>
        Len(fx_found) = 2 /\ ~warned

\* the samples of the data as given that lie within the bounds that are not
\* None
WithinBounds ==
    Ascending({i \in DOMAIN data[1] :
        /\ args.xmin # None => data[1][i] >= args.xmin[2]
        /\ args.xmax # None => data[1][i] <= args.xmax[2]})

\* lines 726-733 have run
BoundsApplied == fn = "fwhm" /\ pc \in {"method", "warn", "lookup", "fit", "done"}

\* C27: whenever fwhm is given an xmin and/or xmax that is not None, whatever
\* numeric type the bound has, the data searched or fitted is restricted to
\* the samples with xmin <= x <= xmax; a bound is ignored only when it is None
C27_BoundsOfAnyType ==
    BoundsApplied =>
        /\ x = Take(data[1], WithinBounds)
        /\ y = Take(data[2], WithinBounds)

\* the same, for bounds that are None or a Python float
C27_FloatBounds ==
    (/\ BoundsApplied
     /\ args.xmin # None => args.xmin[1] = "float"
     /\ args.xmax # None => args.xmax[1] = "float") =>
        /\ x = Take(data[1], WithinBounds)
        /\ y = Take(data[2], WithinBounds)

\* C28: in fwhm with method zero-crossing the level searched is the
\* half-maximum of the data actually searched, hmax = min(y') + (max(y') -
\* min(y')) / 2 for y' the data after the bounds are applied, so that
\* min(y') <= hmax <= max(y') for every choice of bounds
C28_HalfMaxOfSearchedData ==
    CrossingsReported =>
        /\ hmax = Frac(np_min(y) + np_max(y), 2)
        /\ Within(hmax, np_min(y), np_max(y))

\* the same, when the bounds leave the data as given
C28_HalfMaxOfUnclippedData ==
    (CrossingsReported /\ y = data[2]) =>
        /\ hmax = Frac(np_min(y) + np_max(y), 2)
        /\ Within(hmax, np_min(y), np_max(y))

(***************************************************************************)
(* sinusoidal_fit, sinad, thd, sfdr, snr (lines 508-699)                   *)
(*                                                                         *)
(* The signal is a sum of cosines on its own sample grid,                  *)
(*     y[i] = offset + SUM_b tones[b] * cos(2 pi b i / n),                 *)
(* given by its offset and the amplitude of each tone b < n / 2, so that   *)
(* its transform is exact: |fft(y)| is n * |offset| at bin 0 and           *)
(* tones[b] * n / 2 at bins b and n - b.  Amplitudes are even integers.    *)
(* Powers are numbers a + b * sqrt(2) with rational a and b, written       *)
(* <<a, b>>.  The values of np.std, np.log10 and of the residual spectrum  *)
(* are kept as terms.                                                      *)
(***************************************************************************)
MaxBins == 32
MaxHarm == 3

\* line 636: the half-width of the window around a harmonic
HalfWidth == 5

\* the tones of a signal of n samples: bins 1 .. below n / 2
ToneBins(n) == 1..((n - 1) \div 2)

\* a fundamental of amplitude 4 at bin f0 and a spur of amplitude sa at bin s
Tones(n, f0, s, sa) ==
    [b \in ToneBins(n) |-> (IF b = f0 THEN 4 ELSE 0) + (IF b = s THEN sa ELSE 0)]

\* np.mean(y)
np_mean(sig) == sig.offset

\* y - offset
Centred(sig, offset) == [sig EXCEPT !.offset = sig.offset - offset]

\* np.abs(np.fft.fft(y)) for a signal of n samples
fft_abs(sig, n) ==
    [j \in 0..(n - 1) |->
        IF j = 0 THEN n * Abs(sig.offset)
        ELSE LET b == IF 2 * j > n THEN n - j ELSE j
             IN  IF b \in DOMAIN sig.tones THEN (sig.tones[b] * n) \div 2 ELSE 0]

\* np.argmax: the first index of the maximum
np_argmax(a) ==
    CHOOSE i \in DOMAIN a :
        /\ \A j \in DOMAIN a : a[j] <= a[i]
        /\ \A j \in DOMAIN a : j < i => a[j] < a[i]

\* lines 527-531: the bin of the initial guess
GuessBin(xs, sig) ==
    LET i_maxfft == np_argmax(fft_abs(Centred(sig, np_mean(sig)), Size(xs)))
    IN  IF 2 * i_maxfft > Size(xs) THEN Size(xs) - i_maxfft ELSE i_maxfft

\* lines 523-543: the least-squares fit is started at the tone of the largest
\* bin (line 532) and ends on that tone, at the frequency of the guess or at
\* the frequency of the tone, with an amplitude of either sign
sinusoidal_fit(xs, sig) ==
    LET n == Size(xs)
        i_maxfft == GuessBin(xs, sig)
        tone == IF i_maxfft \in DOMAIN sig.tones THEN sig.tones[i_maxfft] ELSE 0
    IN  {[amp |-> s * tone, freq |-> f] :
            s \in {-1, 1},
            f \in {Frac(i_maxfft, xs[n - 1] - xs[0]),
                   Frac(i_maxfft, n * (xs[1] - xs[0]))}}

\* np.ceil of a finite fraction
np_ceil(q) == -((-q[1]) \div q[2])

\* line 635: a = i * np.ceil(freq * (x[-1] - x[0]))
HarmonicBin(i, freq, xs) ==
    i * np_ceil(QMul(freq, Q(xs[Size(xs) - 1] - xs[0])))

\* a slice bound of Python: a negative bound counts from the end, and every
\* bound is clamped to 0..n
SliceBound(n, b) ==
    IF b < 0 THEN (IF b + n < 0 THEN 0 ELSE b + n)
    ELSE IF b > n THEN n ELSE b

\* the indexes of a[start:stop]
Slice(a, start, stop) ==
    SliceBound(Size(a), start)..(SliceBound(Size(a), stop) - 1)

\* line 636: ampfft[int(a - 5):int(a + 5)]
HarmonicWindow(spectrum, a) == Slice(spectrum, a - HalfWidth, a + HalfWidth)

\* lines 637-638: what one harmonic adds to sumharm
HarmonicPeak(spectrum, a) ==
    IF HarmonicWindow(spectrum, a) # {}
    THEN SetMax({spectrum[j] : j \in HarmonicWindow(spectrum, a)})
    ELSE 0

\* a rational number as a power
Rational(q) == <<q, Q(0)>>

\* q / sqrt(2) = (q / 2) * sqrt(2)
OverRoot2(q) == <<Q(0), QDiv(q, Q(2))>>

\* (a + b sqrt(2)) / sqrt(2) = b + (a / 2) sqrt(2)
PowerOverRoot2(p) == <<p[2], QDiv(p[1], Q(2))>>

\* (a + b sqrt(2)) * q
PowerTimes(p, q) == <<QMul(p[1], q), QMul(p[2], q)>>

\* full_scale / (2 * np.sqrt(2))
FullScalePower(full_scale) == OverRoot2(QDiv(Q(full_scale), Q(2)))

\* line 597
SinadFundamental(amp, full_scale, unit) ==
    IF unit = "dBc" THEN OverRoot2(Q(Abs(amp))) ELSE FullScalePower(full_scale)

\* lines 631, 666, 696: (full_scale / (2 sqrt(2))) * (len(x) / sqrt(2))
ScaledFullScalePower(full_scale, n) ==
    PowerOverRoot2(PowerTimes(FullScalePower(full_scale), Q(n)))

\* lines 628-631
ThdFundamental(spectrum, full_scale, unit) ==
    IF unit = "dBc"
    THEN Rational(Q(SetMax({spectrum[j] : j \in 0..((Size(spectrum) \div 2) - 1)})))
    ELSE ScaledFullScalePower(full_scale, Size(spectrum))

\* lines 663-666 and 693-696
SpectrumFundamental(xs, sig, full_scale, unit) ==
    IF unit = "dBc" THEN Rational(Q(np_max(fft_abs(sig, Size(xs)))))
    ELSE ScaledFullScalePower(full_scale, Size(xs))

Units == {"dBc", "dBFS"}

RatioNames == {"sinad", "thd", "sfdr", "snr"}

\* the term each ratio divides the fundamental by, lines 542, 668, 698
Denominator(name) ==
    CASE name = "sinad" -> "residuals"
      [] name = "sfdr" -> "maxspike"
      [] name = "snr" -> "noise"

InitRatio ==
    /\ fn \in RatioNames
    /\ \E u \in Units, fs \in {1, 2} :
          IF fn = "thd"
          THEN \E nb \in 1..MaxHarm :
                  args = [full_scale |-> fs, unit |-> u, nb_harm |-> nb]
          ELSE args = [full_scale |-> fs, unit |-> u]
    /\ \E n \in {MaxBins \div 2, MaxBins}, d \in {1, 2} :
          /\ x = UniformArray(n, d)
          /\ \E o \in {0, 3}, f0 \in 1..7, s \in ToneBins(n), sa \in {0, 2} :
                /\ sa = 0 => s = 1
                /\ y = [offset |-> o, tones |-> Tones(n, f0, s, sa)]
    /\ pc = "fit"
    /\ err = ""
    /\ warned = FALSE
    /\ result = <<>>
    /\ RatioIdle
    /\ PeakIdle /\ SamplingIdle /\ FindIdle /\ FftIdle
    /\ SpectrumIdle /\ DispatchIdle /\ FwhmIdle /\ HeapIdle

nonRatio == <<peakLocals, steps, findLocals, fftLocals, spectrumLocals,
              dispatchLocals, fwhmLocals, heapVars>>

\* lines 593, 622-625, 660, 690
SinusoidalFit ==
    /\ fn \in RatioNames /\ pc = "fit"
    /\ fitparams' \in sinusoidal_fit(x, y)
    /\ ampfft' = IF fn = "thd" THEN fft_abs(Centred(y, np_mean(y)), Size(x))
                 ELSE ampfft
    /\ pc' = "fundamental"
    /\ UNCHANGED <<io, err, warned, result, powfund, sumharm, i_harm, nonRatio>>

\* lines 597, 628-633, 663-666, 693-696
Fundamental ==
    /\ fn \in RatioNames /\ pc = "fundamental"
    /\ powfund' =
          CASE fn = "sinad" ->
                  SinadFundamental(fitparams.amp, args.full_scale, args.unit)
            [] fn = "thd" -> ThdFundamental(ampfft, args.full_scale, args.unit)
            [] OTHER -> SpectrumFundamental(x, y, args.full_scale, args.unit)
    /\ IF fn = "thd"
       THEN pc' = "harmonics" /\ sumharm' = 0 /\ i_harm' = 2
       ELSE pc' = "ratio" /\ sumharm' = sumharm /\ i_harm' = i_harm
    /\ UNCHANGED <<io, err, warned, result, fitparams, ampfft, nonRatio>>

\* lines 634-638: one iteration of the loop over the harmonics
Harmonic ==
    /\ fn = "thd" /\ pc = "harmonics" /\ i_harm <= args.nb_harm + 1
    /\ sumharm' = sumharm + HarmonicPeak(ampfft, HarmonicBin(i_harm, fitparams.freq, x))
    /\ i_harm' = i_harm + 1
    /\ UNCHANGED <<io, pc, err, warned, result, fitparams, ampfft, powfund,
                   nonRatio>>

\* lines 599, 639, 669, 699: 20 * np.log10(numerator / denominator)
Ratio ==
    /\ \/ fn = "thd" /\ pc = "harmonics" /\ i_harm > args.nb_harm + 1
       \/ fn \in RatioNames \ {"thd"} /\ pc = "ratio"
    /\ result' = IF fn = "thd"
                 THEN <<"20*log10", Rational(Q(sumharm)), powfund>>
                 ELSE <<"20*log10", powfund, Denominator(fn)>>
    /\ pc' = "done"
    /\ UNCHANGED <<io, err, warned, ratioLocals, nonRatio>>

NextRatio ==
    \/ SinusoidalFit
    \/ Fundamental
    \/ Harmonic
    \/ Ratio

SpecRatio == InitRatio /\ [][NextRatio]_vars

\* the bin the fitted frequency predicts for the fundamental
FittedBin == HarmonicBin(1, fitparams.freq, x)

\* the largest magnitude within HalfWidth bins of bin a, both ends included
PeakNear(spectrum, a) ==
    LET near == {j \in DOMAIN spectrum : a - HalfWidth <= j /\ j <= a + HalfWidth}
    IN  IF near = {} THEN 0 ELSE SetMax({spectrum[j] : j \in near})

\* the sum of PeakNear over the harmonics from..upto of the fundamental bin
RECURSIVE SumOfPeaks(_, _, _, _)
SumOfPeaks(spectrum, bin, from, upto) ==
    IF from > upto THEN 0
    ELSE PeakNear(spectrum, from * bin) + SumOfPeaks(spectrum, bin, from + 1, upto)

\* every harmonic of the call has its predicted bin inside the spectrum
HarmonicsInside == (args.nb_harm + 1) * FittedBin <= Size(ampfft) - 1

\* C23: thd sums exactly one spectral peak for each of the nb_harm harmonics
\* k = 2..nb_harm+1 of the fitted frequency, the maximum of the magnitude
\* spectrum over the bins a-5 to a+5 inclusive around the predicted bin
\* a = k * ceil(freq * x_span), for every harmonic whose predicted bin lies
\* inside the spectrum, including the harmonics whose bin is below 5
C23_OnePeakPerHarmonic ==
    (fn = "thd" /\ pc = "done" /\ HarmonicsInside) =>
        sumharm = SumOfPeaks(ampfft, FittedBin, 2, args.nb_harm + 1)

\* the largest magnitude in the bins a-5 to a+4, and nothing when a < 5
PeakInSlice(spectrum, a) ==
    LET near == {j \in DOMAIN spectrum : a - HalfWidth <= j /\ j < a + HalfWidth}
    IN  IF a < HalfWidth \/ near = {} THEN 0 ELSE SetMax({spectrum[j] : j \in near})

RECURSIVE SumOfSlices(_, _, _, _)
SumOfSlices(spectrum, bin, from, upto) ==
    IF from > upto THEN 0
    ELSE PeakInSlice(spectrum, from * bin)
            + SumOfSlices(spectrum, bin, from + 1, upto)

\* what thd sums: the window of a harmonic ends at a+4, and a harmonic whose
\* bin is below 5 adds nothing
C23_SumOfSlices ==
    (fn = "thd" /\ pc = "done" /\ HarmonicsInside) =>
        sumharm = SumOfSlices(ampfft, FittedBin, 2, args.nb_harm + 1)

\* C24: for a given signal, unit and full_scale, sinad, sfdr and snr all use
\* the same fundamental power in their ratio, |amp| / sqrt(2) of the fitted
\* sinusoid in dBc mode and full_scale / (2 sqrt(2)) in dBFS mode; none of
\* them puts a magnitude of the spectrum in its place
C24_SameFundamentalPower ==
    (fn \in {"sinad", "sfdr", "snr"} /\ pc = "done") =>
        powfund = IF args.unit = "dBc"
                  THEN <<Q(0), Frac(Abs(fitparams.amp), 2)>>
                  ELSE <<Q(0), Frac(args.full_scale, 4)>>

\* the same, for sinad alone
C24_SinadFundamentalPower ==
    (fn = "sinad" /\ pc = "done") =>
        powfund = IF args.unit = "dBc"
                  THEN <<Q(0), Frac(Abs(fitparams.amp), 2)>>
                  ELSE <<Q(0), Frac(args.full_scale, 4)>>

\* what sfdr and snr use: the largest magnitude of the spectrum of y in dBc
\* mode, full_scale * len(x) / 4 in dBFS mode
C24_SpectrumFundamentalPower ==
    (fn \in {"sfdr", "snr"} /\ pc = "done") =>
        powfund = IF args.unit = "dBc"
                  THEN <<Q(np_max(fft_abs(y, Size(x)))), Q(0)>>
                  ELSE <<Frac(args.full_scale * Size(x), 4), Q(0)>>

=============================================================================
